---- MODULE Spec2Model ----
(***************************************************************************)
(* Order-submission gateway of itirp_complete.py: the Event Store, the     *)
(* Risk Engine and the Execution Engine, with the HTTP handlers that       *)
(* change the limits configuration.                                        *)
(*                                                                         *)
(* Every coroutine is cut at its awaits: one action is the code between    *)
(* two awaits (an event append, the risk check, a sleep, the position      *)
(* update).  The coroutines run on one asyncio event loop: a coroutine     *)
(* keeps the loop until it suspends, and it suspends only in               *)
(* asyncio.sleep, because no asyncio.Lock of the program is held across a  *)
(* sleep, so that no acquire ever waits.  `running` is the coroutine that  *)
(* has the loop.  The Risk Engine lock is held across the two appends of   *)
(* check_order and is a variable; the Execution Engine lock and the Event  *)
(* Store lock are taken and released inside one action.                    *)
(* `lock_log` records each acquisition and each write to shared state     *)
(* with the locks held at that point; `exchange` is the last answer of a   *)
(* role-gated endpoint.                                                    *)
(*                                                                         *)
(* Money is counted in thousandths of a currency unit, so that the price   *)
(* jitter of +-0.1% is a whole number; an average price is an exact        *)
(* fraction [n, d].  Time is counted in seconds since construction; the    *)
(* timestamps stored in events, orders and replies are left out.           *)
(* uuid4() is modelled by fresh numbers: the k-th accepted submission has  *)
(* order_id k and correlation_id -k, the k-th event has event_id k.        *)
(***************************************************************************)
EXTENDS Integers, Sequences, FiniteSets, TLC

\* ------------------------------------------------------------------------
\* Program constants
\* ------------------------------------------------------------------------
DEFAULT_MAX_POSITION_SIZE == 1000000
DEFAULT_MAX_DAILY_VOLUME == 10000000
DEFAULT_MAX_NET_EXPOSURE == 5000000
DEFAULT_MAX_GROSS_EXPOSURE == 15000000
MAX_RETRY_ATTEMPTS == 3
CIRCUIT_BREAKER_THRESHOLD == 5
CIRCUIT_BREAKER_TIMEOUT == 60

\* datetime.date() of a time in seconds: the day number.
SecondsPerDay == 86400
DateOf(t) == t \div SecondsPerDay

\* ------------------------------------------------------------------------
\* Bounds of the model
\* ------------------------------------------------------------------------
\* Spec: accepted submissions, orders being processed at once.
MaxOrders == 2
MaxInFlight == 2
\* SpecBreaker: accepted submissions, orders being processed at once, fills,
\* breaker timeouts of clock.
MaxBreakerOrders == 6
MaxBreakerInFlight == 1
MaxBreakerFills == 1
MaxTimeouts == 1

\* SpecDay: accepted submissions, orders being processed at once, days of clock.
MaxDayOrders == 2
MaxDayInFlight == 1
MaxDays == 1

\* SpecControl: accepted submissions, orders being processed at once, the largest
\* `limit` of GET /audit/events.
MaxControlOrders == 1
MaxControlInFlight == 1
MaxLimit == 6

\* SpecLive: accepted submissions, orders being processed at once.
MaxLiveOrders == 2
MaxLiveInFlight == 2

\* SpecVolume: accepted submissions, orders being processed at once.
MaxVolumeOrders == 3
MaxVolumeInFlight == 3

\* ------------------------------------------------------------------------
\* Enums
\* ------------------------------------------------------------------------
OrderSide == {"BUY", "SELL"}
OrderStatus == {"PENDING", "RISK_CHECK", "APPROVED", "REJECTED", "EXECUTING",
                "EXECUTED", "FAILED", "CANCELLED"}
EventType == {"ORDER_CREATED", "RISK_CHECK_STARTED", "RISK_CHECK_PASSED",
              "RISK_CHECK_FAILED", "EXECUTION_STARTED", "EXECUTION_COMPLETED",
              "EXECUTION_FAILED", "ORDER_CANCELLED"}
RiskViolationType == {"POSITION_LIMIT", "DAILY_VOLUME_LIMIT", "NET_EXPOSURE_LIMIT",
                      "GROSS_EXPOSURE_LIMIT", "KILL_SWITCH_ACTIVE"}

UserRole == {"TRADER", "RISK_MANAGER", "COMPLIANCE", "ADMIN"}

\* Optional[T]: None is the empty tuple, a value v is <<v>>.
None == <<>>
Some(v) == <<v>>

\* ------------------------------------------------------------------------
\* Exact arithmetic on average prices
\* ------------------------------------------------------------------------
Abs(x) == IF x < 0 THEN -x ELSE x

RECURSIVE GCD(_, _)
GCD(a, b) == IF b = 0 THEN a ELSE GCD(b, a % b)

\* The fraction n/d in lowest terms with a positive denominator.
Frac(n, d) ==
    IF n = 0 THEN [n |-> 0, d |-> 1]
    ELSE LET g == GCD(Abs(n), Abs(d))
             s == IF d < 0 THEN -1 ELSE 1
         IN  [n |-> (s * n) \div g, d |-> Abs(d) \div g]

FracAdd(x, y) == Frac(x.n * y.d + y.n * x.d, x.d * y.d)
FracAbs(x) == [n |-> Abs(x.n), d |-> x.d]
\* x > k for a fraction x and an integer k
FracGreater(x, k) == x.n > k * x.d
\* x <= y for two fractions
FracLeq(x, y) == x.n * y.d <= y.n * x.d

\* ------------------------------------------------------------------------
\* Inputs
\* ------------------------------------------------------------------------
Users == {"u1"}
\* random.uniform(-0.001, 0.001), in thousandths
Jitters == {1}

\* OrderRequest (symbol already uppercased by the validator)
OrderRequest(symbol, side, quantity, price, client_order_id) ==
    [symbol |-> symbol, side |-> side, quantity |-> quantity, price |-> price,
     strategy |-> "default", client_order_id |-> client_order_id]

\* RiskLimitsConfig
RiskLimitsConfig(mps, mdv, mne, mge, ks) ==
    [max_position_size |-> mps, max_daily_volume |-> mdv, max_net_exposure |-> mne,
     max_gross_exposure |-> mge, kill_switch_enabled |-> ks]

DefaultConfig ==
    RiskLimitsConfig(DEFAULT_MAX_POSITION_SIZE, DEFAULT_MAX_DAILY_VOLUME,
                     DEFAULT_MAX_NET_EXPOSURE, DEFAULT_MAX_GROSS_EXPOSURE, FALSE)

\* ------------------------------------------------------------------------
\* State
\* ------------------------------------------------------------------------
VARIABLES
    events,                      \* EventStore.events
    events_by_correlation,       \* EventStore.events_by_correlation
    events_by_order,             \* EventStore.events_by_order
    config,                      \* RiskEngine.config
    positions,                   \* RiskEngine.positions
    daily_volume,                \* RiskEngine.daily_volume
    daily_volume_reset,          \* RiskEngine.daily_volume_reset
    risk_lock,                   \* RiskEngine._lock: None or the holding order's task
    orders,                      \* ExecutionEngine.orders
    execution_keys,              \* ExecutionEngine.execution_keys
    circuit_breaker_failures,    \* ExecutionEngine.circuit_breaker_failures
    circuit_breaker_open_until,  \* ExecutionEngine.circuit_breaker_open_until
    pc,                          \* where the coroutine of each accepted submission stands
    local,                       \* the coroutine's Order before it is in the table
    attempt,                     \* loop variable of _execute_order
    risk_results,                \* the RiskCheckResult check_order returned, per order
    replies,                     \* the OrderResponse submit_order returned, per order
    conflicts,                   \* the idempotency keys answered with HTTP 409
    exchange,                    \* the last answer of a control-plane endpoint, or None
    lock_log,                    \* every lock acquisition and write made so far, with the locks held
    running,                     \* the coroutine that has the event loop, or None
    now                          \* datetime.utcnow()

storeVars == <<events, events_by_correlation, events_by_order>>
riskVars == <<config, positions, daily_volume, daily_volume_reset, risk_lock>>
engineVars == <<orders, execution_keys, circuit_breaker_failures,
                circuit_breaker_open_until>>
taskVars == <<pc, local, attempt, risk_results, replies>>
vars == <<events, events_by_correlation, events_by_order, config, positions,
          daily_volume, daily_volume_reset, risk_lock, orders, execution_keys,
          circuit_breaker_failures, circuit_breaker_open_until, pc, local, attempt,
          risk_results, replies, conflicts, exchange, lock_log, running, now>>

\* The state after construction of the three engines.
Init ==
    /\ events = <<>>
    /\ events_by_correlation = <<>>
    /\ events_by_order = <<>>
    /\ config = DefaultConfig
    /\ positions = <<>>
    /\ daily_volume = 0
    /\ daily_volume_reset = 0
    /\ risk_lock = None
    /\ orders = <<>>
    /\ execution_keys = {}
    /\ circuit_breaker_failures = 0
    /\ circuit_breaker_open_until = None
    /\ pc = <<>>
    /\ local = <<>>
    /\ attempt = <<>>
    /\ risk_results = <<>>
    /\ replies = <<>>
    /\ conflicts = {}
    /\ exchange = None
    /\ lock_log = {}
    /\ running = None
    /\ now = 0

\* d[k] = v, for a dict d
Put(d, k, v) == [x \in DOMAIN d \cup {k} |-> IF x = k THEN v ELSE d[x]]
\* defaultdict(list): d[k].append(v)
AppendTo(d, k, v) == Put(d, k, IF k \in DOMAIN d THEN Append(d[k], v) ELSE <<v>>)

\* ------------------------------------------------------------------------
\* Locks
\* ------------------------------------------------------------------------
\* ExecutionEngine._lock, RiskEngine._lock, EventStore._lock
Locks == {"engine", "risk", "store"}

\* `async with lock` entered by a coroutine that holds the locks `held`
Acquire(held, lock) == [op |-> "acquire", held |-> held, what |-> lock]
\* An assignment to `resource` by a coroutine that holds the locks `held`
Write(held, resource) == [op |-> "write", held |-> held, what |-> resource]

\* The acquisitions and writes of one step are added to the log
Log(entries) == lock_log' = lock_log \cup entries

\* EventStore.append that takes the Risk Engine lock inside its own.
AppendLocks_TakesRiskLock(held) ==
    {Acquire(held, "store"), Acquire(held \cup {"store"}, "risk"),
     Write(held \cup {"store"}, "events")}

\* EventStore.append called by a coroutine that holds `held`
AppendLocks(held) ==
    {Acquire(held, "store"), Write(held \cup {"store"}, "events")}

\* ------------------------------------------------------------------------
\* Event Store
\* ------------------------------------------------------------------------
Event(event_type, correlation_id, order_id, payload, user_id) ==
    [event_id |-> Len(events) + 1, event_type |-> event_type,
     correlation_id |-> correlation_id, order_id |-> order_id,
     payload |-> payload, user_id |-> user_id]

\* StoreAppend that leaves the correlation index alone.
StoreAppend_NoCorrelationIndex(event) ==
    /\ events' = Append(events, event)
    /\ UNCHANGED events_by_correlation
    /\ events_by_order' = AppendTo(events_by_order, event.order_id, event)

\* StoreAppend that leaves the order index alone.
StoreAppend_NoOrderIndex(event) ==
    /\ events' = Append(events, event)
    /\ events_by_correlation' = AppendTo(events_by_correlation, event.correlation_id, event)
    /\ UNCHANGED events_by_order

\* StoreAppend that inserts at the head of the log and of the index lists.
StoreAppend_InsertsAtFront(event) ==
    /\ events' = <<event>> \o events
    /\ events_by_correlation' =
           Put(events_by_correlation, event.correlation_id,
               IF event.correlation_id \in DOMAIN events_by_correlation
               THEN <<event>> \o events_by_correlation[event.correlation_id]
               ELSE <<event>>)
    /\ events_by_order' =
           Put(events_by_order, event.order_id,
               IF event.order_id \in DOMAIN events_by_order
               THEN <<event>> \o events_by_order[event.order_id] ELSE <<event>>)

\* EventStore.append, the log and both indices under the store's lock
StoreAppend(event) ==
    /\ events' = Append(events, event)
    /\ events_by_correlation' = AppendTo(events_by_correlation, event.correlation_id, event)
    /\ events_by_order' = AppendTo(events_by_order, event.order_id, event)

\* EventStore.get_by_correlation / get_by_order: a copy of the indexed list
get_by_correlation(correlation_id) ==
    IF correlation_id \in DOMAIN events_by_correlation
    THEN events_by_correlation[correlation_id] ELSE <<>>
get_by_order(order_id) ==
    IF order_id \in DOMAIN events_by_order THEN events_by_order[order_id] ELSE <<>>

\* EventStore.replay: the events of get_by_correlation, each as its dict
replay(correlation_id) == get_by_correlation(correlation_id)

\* s[start:] of a Python list, for any integer start
SliceFrom(s, start) ==
    LET n == Len(s)
        first == IF start < 0 THEN (IF n + start < 0 THEN 0 ELSE n + start)
                 ELSE (IF start > n THEN n ELSE start)
    IN  SubSeq(s, first + 1, n)

\* EventStore.get_all_events: self.events[-limit:], each event as its dict (the
\* fields of the record)
get_all_events(limit) == SliceFrom(events, 0 - limit)

\* ------------------------------------------------------------------------
\* Risk Engine
\* ------------------------------------------------------------------------
Position(symbol, quantity, average_price) ==
    [symbol |-> symbol, quantity |-> quantity, average_price |-> average_price,
     realized_pnl |-> 0]

RiskCheckResult(passed, violations, message) ==
    [passed |-> passed, violations |-> violations, message |-> message]

\* Order.notional_value
notional_value(order) == order.quantity * order.price

\* quantity * average_price of one position
PositionValue(p) == Frac(p.quantity * p.average_price.n, p.average_price.d)

RECURSIVE SumValues(_, _)
SumValues(ps, syms) ==
    IF syms = {} THEN Frac(0, 1)
    ELSE LET s == CHOOSE x \in syms : TRUE
         IN  FracAdd(PositionValue(ps[s]), SumValues(ps, syms \ {s}))

RECURSIVE SumAbsValues(_, _)
SumAbsValues(ps, syms) ==
    IF syms = {} THEN Frac(0, 1)
    ELSE LET s == CHOOSE x \in syms : TRUE
         IN  FracAdd(FracAbs(PositionValue(ps[s])), SumAbsValues(ps, syms \ {s}))

\* calculate_gross_exposure without abs().
calculate_gross_exposure_NoAbs(ps) == SumValues(ps, DOMAIN ps)

\* RiskEngine._calculate_net_exposure / _calculate_gross_exposure
calculate_net_exposure(ps) == SumValues(ps, DOMAIN ps)
calculate_gross_exposure(ps) == SumAbsValues(ps, DOMAIN ps)

\* _calculate_projected_positions that enters a new symbol at the order's price.
calculate_projected_positions_AtOrderPrice(order) ==
    LET projected == IF order.symbol \in DOMAIN positions THEN positions
                     ELSE Put(positions, order.symbol,
                              Position(order.symbol, 0, Frac(order.price, 1)))
        quantity_delta == IF order.side = "BUY" THEN order.quantity ELSE -order.quantity
    IN  [projected EXCEPT ![order.symbol].quantity = @ + quantity_delta]

\* RiskEngine._calculate_projected_positions: the dict it returns
calculate_projected_positions(order) ==
    LET projected == IF order.symbol \in DOMAIN positions THEN positions
                     ELSE Put(positions, order.symbol,
                              Position(order.symbol, 0, Frac(0, 1)))
        quantity_delta == IF order.side = "BUY" THEN order.quantity ELSE -order.quantity
    IN  [projected EXCEPT ![order.symbol].quantity = @ + quantity_delta]

\* _calculate_projected_positions that works on self.positions itself, not on a copy.
PositionsAfterProjection_NoCopy(order) == calculate_projected_positions(order)

\* self.positions after _calculate_projected_positions: dict.copy() is shallow, so
\* a Position already in self.positions is the object whose quantity is assigned;
\* a Position made for a new symbol is in the copy alone.
PositionsAfterProjection(order) ==
    IF order.symbol \in DOMAIN positions THEN calculate_projected_positions(order)
    ELSE positions

\* RiskEngine._reset_daily_volume_if_needed: the two fields after the call
DayChanged == DateOf(now) > DateOf(daily_volume_reset)
ResetDailyVolumeIfNeeded ==
    /\ daily_volume' = IF DayChanged THEN 0 ELSE daily_volume
    /\ daily_volume_reset' = IF DayChanged THEN now ELSE daily_volume_reset

\* _reset_daily_volume_if_needed, called under the Risk Engine lock
ResetLocks ==
    IF DayChanged THEN {Write({"risk"}, "daily_volume")} ELSE {}

\* LimitViolations that stops at the first limit that is exceeded.
LimitViolations_ShortCircuits(order, cfg, volume, projected) ==
    LET notional == notional_value(order)
        net_exposure == calculate_net_exposure(projected)
        gross_exposure == calculate_gross_exposure(projected)
    IN  IF notional > cfg.max_position_size THEN <<"POSITION_LIMIT">>
        ELSE IF volume + notional > cfg.max_daily_volume THEN <<"DAILY_VOLUME_LIMIT">>
        ELSE IF FracGreater(FracAbs(net_exposure), cfg.max_net_exposure)
             THEN <<"NET_EXPOSURE_LIMIT">>
        ELSE IF FracGreater(gross_exposure, cfg.max_gross_exposure)
             THEN <<"GROSS_EXPOSURE_LIMIT">>
        ELSE <<>>

\* The violation list of check_order with the kill switch off, in the code's order.
LimitViolations(order, cfg, volume, projected) ==
    LET notional == notional_value(order)
        net_exposure == calculate_net_exposure(projected)
        gross_exposure == calculate_gross_exposure(projected)
    IN  (IF notional > cfg.max_position_size THEN <<"POSITION_LIMIT">> ELSE <<>>)
        \o (IF volume + notional > cfg.max_daily_volume
            THEN <<"DAILY_VOLUME_LIMIT">> ELSE <<>>)
        \o (IF FracGreater(FracAbs(net_exposure), cfg.max_net_exposure)
            THEN <<"NET_EXPOSURE_LIMIT">> ELSE <<>>)
        \o (IF FracGreater(gross_exposure, cfg.max_gross_exposure)
            THEN <<"GROSS_EXPOSURE_LIMIT">> ELSE <<>>)

\* ', '.join(names)
RECURSIVE Join(_)
Join(names) ==
    IF names = <<>> THEN ""
    ELSE IF Len(names) = 1 THEN names[1]
    ELSE names[1] \o ", " \o Join(Tail(names))

KillSwitchMessage == "Kill switch is active - all trading halted"

\* CheckResult without the return under the kill switch: the limits are evaluated too.
CheckResult_NoShortCircuit(order, cfg, volume) ==
    LET violations ==
                 (IF cfg.kill_switch_enabled THEN <<"KILL_SWITCH_ACTIVE">> ELSE <<>>)
                 \o LimitViolations(order, cfg, volume,
                                    calculate_projected_positions(order))
             passed == Len(violations) = 0
         IN  RiskCheckResult(passed, violations,
                             IF passed THEN "Risk check passed"
                             ELSE "Risk violations: " \o Join(violations))

\* The RiskCheckResult of check_order (lines 328-385)
CheckResult(order, cfg, volume) ==
    IF cfg.kill_switch_enabled
    THEN RiskCheckResult(FALSE, <<"KILL_SWITCH_ACTIVE">>, KillSwitchMessage)
    ELSE LET violations ==
                 LimitViolations(order, cfg, volume, calculate_projected_positions(order))
             passed == Len(violations) = 0
         IN  RiskCheckResult(passed, violations,
                             IF passed THEN "Risk check passed"
                             ELSE "Risk violations: " \o Join(violations))

\* The result event of check_order; the kill-switch return comes before it.
ResultEvent(order, result) ==
    LET projected == calculate_projected_positions(order)
    IN  Event(IF result.passed THEN "RISK_CHECK_PASSED" ELSE "RISK_CHECK_FAILED",
              order.correlation_id, order.order_id,
              [passed |-> result.passed, violations |-> result.violations,
               net_exposure |-> calculate_net_exposure(projected),
               gross_exposure |-> calculate_gross_exposure(projected)],
              order.user_id)

\* PositionAfterFill that adds the executed quantity whatever the side.
PositionAfterFill_IgnoresSide(position, order) ==
    LET quantity_delta == order.executed_quantity
        a == position.average_price
        executed_price == order.executed_price[1]
    IN  IF position.quantity + quantity_delta # 0
        THEN [position EXCEPT
                 !.quantity = position.quantity + quantity_delta,
                 !.average_price =
                     Frac(position.quantity * a.n + quantity_delta * executed_price * a.d,
                          a.d * (position.quantity + quantity_delta))]
        ELSE [position EXCEPT !.quantity = 0, !.average_price = Frac(0, 1)]

\* The Position of update_position after the fill of `order`
PositionAfterFill(position, order) ==
    LET quantity_delta == IF order.side = "BUY" THEN order.executed_quantity
                          ELSE -order.executed_quantity
        a == position.average_price
        executed_price == order.executed_price[1]
    IN  IF position.quantity + quantity_delta # 0
        THEN [position EXCEPT
                 !.quantity = position.quantity + quantity_delta,
                 !.average_price =
                     Frac(position.quantity * a.n + quantity_delta * executed_price * a.d,
                          a.d * (position.quantity + quantity_delta))]
        ELSE [position EXCEPT !.quantity = 0, !.average_price = Frac(0, 1)]

\* RiskEngine.get_metrics: the RiskMetrics it returns
RiskMetrics(volume) ==
    LET values == {FracAbs(PositionValue(positions[s])) : s \in DOMAIN positions}
    IN  [net_exposure |-> calculate_net_exposure(positions),
         gross_exposure |-> calculate_gross_exposure(positions),
         daily_volume |-> volume,
         total_positions |-> Cardinality(DOMAIN positions),
         largest_position |->
             IF values = {} THEN Frac(0, 1)
             ELSE CHOOSE v \in values : \A w \in values : FracLeq(w, v),
         kill_switch_active |-> config.kill_switch_enabled]

\* GET /risk/metrics -> RiskEngine.get_metrics
GetMetrics ==
    /\ running = None
    /\ risk_lock = None
    /\ ResetDailyVolumeIfNeeded
    /\ UNCHANGED <<config, positions, risk_lock>>
    /\ UNCHANGED <<storeVars, engineVars, taskVars, conflicts, exchange, running, now>>
    /\ Log({Acquire({}, "risk")} \cup ResetLocks)

\* update_risk_limits that keeps the kill switch of the configuration it replaces.
UpdateRiskLimits_KeepsKillSwitch(new_config) ==
    /\ running = None
    /\ config' = [new_config EXCEPT !.kill_switch_enabled = config.kill_switch_enabled]
    /\ UNCHANGED <<positions, daily_volume, daily_volume_reset, risk_lock>>
    /\ UNCHANGED <<storeVars, engineVars, taskVars, conflicts, running, now>>
    /\ Log({Write({}, "config")})

\* PUT /risk/limits: the handler's assignment; its answer is the HTTP layer's
UpdateRiskLimits(new_config) ==
    /\ running = None
    /\ config' = new_config
    /\ UNCHANGED <<positions, daily_volume, daily_volume_reset, risk_lock>>
    /\ UNCHANGED <<storeVars, engineVars, taskVars, conflicts, running, now>>
    /\ Log({Write({}, "config")})

\* POST /risk/kill-switch: the handler's assignment; its answer is the HTTP layer's
ToggleKillSwitch(enabled) ==
    /\ running = None
    /\ config' = [config EXCEPT !.kill_switch_enabled = enabled]
    /\ UNCHANGED <<positions, daily_volume, daily_volume_reset, risk_lock>>
    /\ UNCHANGED <<storeVars, engineVars, taskVars, conflicts, running, now>>
    /\ Log({Write({}, "config")})

\* ------------------------------------------------------------------------
\* Execution Engine
\* ------------------------------------------------------------------------
\* str(client_order_id) in the f-string of the key
FormatOptional(v) == IF v = None THEN "None" ELSE v[1]

\* ExecutionEngine._generate_execution_key: the fields whose ':'-joined text is hashed
generate_execution_key(request, user_id) ==
    <<user_id, request.symbol, request.side, request.quantity, request.price,
      FormatOptional(request.client_order_id)>>

\* Order whose correlation id is one fixed value.
Order_SharedCorrelation(order_id, correlation_id, request, user_id) ==
    [order_id |-> order_id, correlation_id |-> 0,
     symbol |-> request.symbol, side |-> request.side, quantity |-> request.quantity,
     price |-> request.price, strategy |-> request.strategy, status |-> "PENDING",
     user_id |-> user_id,
     client_order_id |-> request.client_order_id, executed_quantity |-> 0,
     executed_price |-> None, rejection_reason |-> None, retry_count |-> 0]

Order(order_id, correlation_id, request, user_id) ==
    [order_id |-> order_id, correlation_id |-> correlation_id,
     symbol |-> request.symbol, side |-> request.side, quantity |-> request.quantity,
     price |-> request.price, strategy |-> request.strategy, status |-> "PENDING",
     user_id |-> user_id,
     client_order_id |-> request.client_order_id, executed_quantity |-> 0,
     executed_price |-> None, rejection_reason |-> None, retry_count |-> 0]

OrderResponse(order, status, message) ==
    [order_id |-> order.order_id, status |-> status,
     correlation_id |-> order.correlation_id, message |-> message]

\* The coroutines that have not ended
InFlight == {o \in DOMAIN pc : pc[o] # "done"}

\* submit_order, lines 501-507: the engine lock around the test and the add
SubmitOrderLocks(request, user_id) ==
    {Acquire({}, "engine")}
    \cup (IF generate_execution_key(request, user_id) \in execution_keys THEN {}
          ELSE {Write({"engine"}, "execution_keys")})

\* submit_order, lines 524-525
CreateOrderLocks == {Acquire({}, "engine"), Write({"engine"}, "orders")}

\* submit_order, line 545, and check_order, lines 313-326
BeginRiskCheckLocks ==
    {Write({}, "order"), Acquire({}, "risk")} \cup ResetLocks \cup AppendLocks({"risk"})

\* check_order, lines 328-385, under the Risk Engine lock, and submit_order, lines
\* 548-560: the projection assigns to a Position that is in self.positions
FinishRiskCheckLocks(o) ==
    (IF config.kill_switch_enabled THEN {}
     ELSE (IF orders[o].symbol \in DOMAIN positions
           THEN {Write({"risk"}, "positions")} ELSE {})
          \cup AppendLocks({"risk"}))
    \cup {Write({}, "order")}

\* _execute_order, lines 576-599
ExecuteStartLocks ==
    {Write({}, "order")}
    \cup (IF circuit_breaker_open_until # None /\ now < circuit_breaker_open_until[1]
          THEN {}
          ELSE (IF circuit_breaker_open_until # None
                THEN {Write({}, "circuit_breaker")} ELSE {})
               \cup AppendLocks({}))

\* update_position, lines 389-411
UpdatePositionLocks ==
    {Acquire({}, "risk"), Write({"risk"}, "positions"), Write({"risk"}, "daily_volume")}

\* _execute_order, lines 638-656
AttemptFailureLocks(o) ==
    {Write({}, "order")}
    \cup (IF attempt[o] < MAX_RETRY_ATTEMPTS - 1 THEN {}
          ELSE {Write({}, "circuit_breaker")})

\* SubmitOrder that tests the key and never adds it.
SubmitOrder_KeyNotAdded(request, user_id) ==
    LET execution_key == generate_execution_key(request, user_id)
        order_id == Cardinality(DOMAIN pc) + 1
    IN  /\ running = None
        /\ IF execution_key \in execution_keys
           THEN /\ conflicts' = conflicts \cup {execution_key}
                /\ UNCHANGED exchange
                /\ UNCHANGED <<storeVars, riskVars, engineVars, taskVars, running, now>>
           ELSE /\ UNCHANGED execution_keys
                /\ running' = Some(order_id)
                /\ pc' = Put(pc, order_id, "create")
                /\ local' = Put(local, order_id,
                                [order_id |-> order_id, correlation_id |-> -order_id,
                                 request |-> request, user_id |-> user_id])
                /\ UNCHANGED <<orders, circuit_breaker_failures,
                               circuit_breaker_open_until>>
                /\ UNCHANGED <<storeVars, riskVars, attempt, risk_results, replies,
                               conflicts, exchange, now>>
        /\ Log(SubmitOrderLocks(request, user_id))

\* SubmitOrder that puts the Order in the table before it tests the key.
SubmitOrder_CheckAfterCreate(request, user_id) ==
    LET execution_key == generate_execution_key(request, user_id)
        order_id == Cardinality(execution_keys) + 1
    IN  /\ running = None
        /\ IF execution_key \in execution_keys
           THEN /\ conflicts' = conflicts \cup {execution_key}
                /\ UNCHANGED exchange
                /\ orders' = Put(orders, Cardinality(DOMAIN orders) + 1,
                                 Order(order_id, -order_id, request, user_id))
                /\ UNCHANGED <<execution_keys, circuit_breaker_failures,
                               circuit_breaker_open_until>>
                /\ UNCHANGED <<storeVars, riskVars, taskVars, running, now>>
           ELSE /\ execution_keys' = execution_keys \cup {execution_key}
                /\ running' = Some(order_id)
                /\ pc' = Put(pc, order_id, "create")
                /\ local' = Put(local, order_id,
                                [order_id |-> order_id, correlation_id |-> -order_id,
                                 request |-> request, user_id |-> user_id])
                /\ UNCHANGED <<orders, circuit_breaker_failures,
                               circuit_breaker_open_until>>
                /\ UNCHANGED <<storeVars, riskVars, attempt, risk_results, replies,
                               conflicts, exchange, now>>
        /\ Log(SubmitOrderLocks(request, user_id))

\* submit_order, lines 496-507: the idempotency gate under the engine's lock.
\* A duplicate raises HTTP 409; otherwise the key is added and the call goes on.
SubmitOrder(request, user_id) ==
    LET execution_key == generate_execution_key(request, user_id)
        order_id == Cardinality(execution_keys) + 1
    IN  /\ running = None
        /\ IF execution_key \in execution_keys
           THEN /\ conflicts' = conflicts \cup {execution_key}
                /\ UNCHANGED exchange
                /\ UNCHANGED <<storeVars, riskVars, engineVars, taskVars, running, now>>
           ELSE /\ execution_keys' = execution_keys \cup {execution_key}
                /\ running' = Some(order_id)
                /\ pc' = Put(pc, order_id, "create")
                /\ local' = Put(local, order_id,
                                [order_id |-> order_id, correlation_id |-> -order_id,
                                 request |-> request, user_id |-> user_id])
                /\ UNCHANGED <<orders, circuit_breaker_failures,
                               circuit_breaker_open_until>>
                /\ UNCHANGED <<storeVars, riskVars, attempt, risk_results, replies,
                               conflicts, exchange, now>>
        /\ Log(SubmitOrderLocks(request, user_id))

\* submit_order, lines 509-525: the Order is made and put in the table.
CreateOrder(o) ==
    /\ o \in DOMAIN pc /\ pc[o] = "create"
    /\ running = Some(o)
    /\ orders' = Put(orders, o, Order(local[o].order_id, local[o].correlation_id,
                                      local[o].request, local[o].user_id))
    /\ local' = [x \in DOMAIN local \ {o} |-> local[x]]
    /\ pc' = [pc EXCEPT ![o] = "emit_created"]
    /\ UNCHANGED <<execution_keys, circuit_breaker_failures, circuit_breaker_open_until>>
    /\ UNCHANGED <<storeVars, riskVars, attempt, risk_results, replies, conflicts, exchange, now>>
    /\ UNCHANGED running
    /\ Log(CreateOrderLocks)

\* submit_order, lines 527-542
EmitOrderCreated(o) ==
    /\ o \in DOMAIN pc /\ pc[o] = "emit_created"
    /\ running = Some(o)
    /\ StoreAppend(Event("ORDER_CREATED", orders[o].correlation_id, o,
                         [symbol |-> orders[o].symbol, side |-> orders[o].side,
                          quantity |-> orders[o].quantity, price |-> orders[o].price,
                          strategy |-> orders[o].strategy],
                         orders[o].user_id))
    /\ pc' = [pc EXCEPT ![o] = "risk_check"]
    /\ UNCHANGED <<riskVars, engineVars, local, attempt, risk_results, replies,
                   conflicts, exchange, now>>
    /\ UNCHANGED running
    /\ Log(AppendLocks({}))

\* BeginRiskCheck that gives up the event loop while it holds the Risk Engine lock.
BeginRiskCheck_ReleasesLoop(o) ==
    /\ o \in DOMAIN pc /\ pc[o] = "risk_check"
    /\ running = Some(o)
    /\ risk_lock = None
    /\ orders' = [orders EXCEPT ![o].status = "RISK_CHECK"]
    /\ risk_lock' = Some(o)
    /\ ResetDailyVolumeIfNeeded
    /\ StoreAppend(Event("RISK_CHECK_STARTED", orders[o].correlation_id, o,
                         [order |-> o], orders[o].user_id))
    /\ pc' = [pc EXCEPT ![o] = "evaluate"]
    /\ UNCHANGED <<config, positions, execution_keys, circuit_breaker_failures,
                   circuit_breaker_open_until, local, attempt, risk_results, replies,
                   conflicts, exchange, now>>
    /\ running' = None
    /\ Log(BeginRiskCheckLocks)

\* submit_order, lines 544-546, and check_order, lines 313-326: the status is set,
\* the Risk Engine lock taken, the daily volume reset and RISK_CHECK_STARTED appended.
BeginRiskCheck(o) ==
    /\ o \in DOMAIN pc /\ pc[o] = "risk_check"
    /\ running = Some(o)
    /\ risk_lock = None
    /\ orders' = [orders EXCEPT ![o].status = "RISK_CHECK"]
    /\ risk_lock' = Some(o)
    /\ ResetDailyVolumeIfNeeded
    /\ StoreAppend(Event("RISK_CHECK_STARTED", orders[o].correlation_id, o,
                         [order |-> o], orders[o].user_id))
    /\ pc' = [pc EXCEPT ![o] = "evaluate"]
    /\ UNCHANGED <<config, positions, execution_keys, circuit_breaker_failures,
                   circuit_breaker_open_until, local, attempt, risk_results, replies,
                   conflicts, exchange, now>>
    /\ UNCHANGED running
    /\ Log(BeginRiskCheckLocks)

\* FinishRiskCheck that awaits the execution instead of creating its task: an
\* approved order gets no reply at this point.
FinishRiskCheck_AwaitsExecution(o) ==
    /\ o \in DOMAIN pc /\ pc[o] = "evaluate"
    /\ running = Some(o)
    /\ risk_lock = Some(o)
    /\ LET order == orders[o]
           risk_result == CheckResult(order, config, daily_volume)
       IN  /\ IF config.kill_switch_enabled
              THEN UNCHANGED <<positions, storeVars>>
              ELSE /\ positions' = PositionsAfterProjection(order)
                   /\ StoreAppend(ResultEvent(order, risk_result))
           /\ risk_results' = Put(risk_results, o, risk_result)
           /\ IF ~risk_result.passed
              THEN /\ orders' = [orders EXCEPT ![o].status = "REJECTED",
                                               ![o].rejection_reason =
                                                   Some(risk_result.message)]
                   /\ replies' = Put(replies, o,
                                     OrderResponse(order, "REJECTED", risk_result.message))
                   /\ pc' = [pc EXCEPT ![o] = "done"]
              ELSE /\ orders' = [orders EXCEPT ![o].status = "APPROVED"]
                   /\ UNCHANGED replies
                   /\ pc' = [pc EXCEPT ![o] = "scheduled"]
    /\ risk_lock' = None
    /\ UNCHANGED <<config, daily_volume, daily_volume_reset, execution_keys,
                   circuit_breaker_failures, circuit_breaker_open_until, local, attempt,
                   conflicts, exchange, now>>
    /\ running' = None
    /\ Log(FinishRiskCheckLocks(o))

\* FinishRiskCheck that creates the execution task for a rejected order too.
FinishRiskCheck_SchedulesRejected(o) ==
    /\ o \in DOMAIN pc /\ pc[o] = "evaluate"
    /\ running = Some(o)
    /\ risk_lock = Some(o)
    /\ LET order == orders[o]
           risk_result == CheckResult(order, config, daily_volume)
       IN  /\ IF config.kill_switch_enabled
              THEN UNCHANGED <<positions, storeVars>>
              ELSE /\ positions' = PositionsAfterProjection(order)
                   /\ StoreAppend(ResultEvent(order, risk_result))
           /\ risk_results' = Put(risk_results, o, risk_result)
           /\ IF ~risk_result.passed
              THEN /\ orders' = [orders EXCEPT ![o].status = "REJECTED",
                                               ![o].rejection_reason =
                                                   Some(risk_result.message)]
                   /\ replies' = Put(replies, o,
                                     OrderResponse(order, "REJECTED", risk_result.message))
                   /\ pc' = [pc EXCEPT ![o] = "scheduled"]
              ELSE /\ orders' = [orders EXCEPT ![o].status = "APPROVED"]
                   /\ replies' = Put(replies, o,
                                     OrderResponse(order, "APPROVED",
                                         "Order approved and submitted for execution"))
                   /\ pc' = [pc EXCEPT ![o] = "scheduled"]
    /\ risk_lock' = None
    /\ UNCHANGED <<config, daily_volume, daily_volume_reset, execution_keys,
                   circuit_breaker_failures, circuit_breaker_open_until, local, attempt,
                   conflicts, exchange, now>>
    /\ running' = None
    /\ Log(FinishRiskCheckLocks(o))

\* FinishRiskCheck that returns without releasing the Risk Engine lock.
FinishRiskCheck_KeepsLock(o) ==
    /\ o \in DOMAIN pc /\ pc[o] = "evaluate"
    /\ running = Some(o)
    /\ risk_lock = Some(o)
    /\ LET order == orders[o]
           risk_result == CheckResult(order, config, daily_volume)
       IN  /\ IF config.kill_switch_enabled
              THEN UNCHANGED <<positions, storeVars>>
              ELSE /\ positions' = PositionsAfterProjection(order)
                   /\ StoreAppend(ResultEvent(order, risk_result))
           /\ risk_results' = Put(risk_results, o, risk_result)
           /\ IF ~risk_result.passed
              THEN /\ orders' = [orders EXCEPT ![o].status = "REJECTED",
                                               ![o].rejection_reason =
                                                   Some(risk_result.message)]
                   /\ replies' = Put(replies, o,
                                     OrderResponse(order, "REJECTED", risk_result.message))
                   /\ pc' = [pc EXCEPT ![o] = "done"]
              ELSE /\ orders' = [orders EXCEPT ![o].status = "APPROVED"]
                   /\ replies' = Put(replies, o,
                                     OrderResponse(order, "APPROVED",
                                         "Order approved and submitted for execution"))
                   /\ pc' = [pc EXCEPT ![o] = "scheduled"]
    /\ UNCHANGED risk_lock
    /\ UNCHANGED <<config, daily_volume, daily_volume_reset, execution_keys,
                   circuit_breaker_failures, circuit_breaker_open_until, local, attempt,
                   conflicts, exchange, now>>
    /\ running' = None
    /\ Log(FinishRiskCheckLocks(o))

\* check_order, lines 328-385, and submit_order, lines 548-569: the limits are
\* evaluated, the result event appended (not on the kill-switch return), the lock
\* released; the order is REJECTED, or APPROVED and its execution task created; the
\* reply is returned.
FinishRiskCheck(o) ==
    /\ o \in DOMAIN pc /\ pc[o] = "evaluate"
    /\ running = Some(o)
    /\ risk_lock = Some(o)
    /\ LET order == orders[o]
           risk_result == CheckResult(order, config, daily_volume)
       IN  /\ IF config.kill_switch_enabled
              THEN UNCHANGED <<positions, storeVars>>
              ELSE /\ positions' = PositionsAfterProjection(order)
                   /\ StoreAppend(ResultEvent(order, risk_result))
           /\ risk_results' = Put(risk_results, o, risk_result)
           /\ IF ~risk_result.passed
              THEN /\ orders' = [orders EXCEPT ![o].status = "REJECTED",
                                               ![o].rejection_reason =
                                                   Some(risk_result.message)]
                   /\ replies' = Put(replies, o,
                                     OrderResponse(order, "REJECTED", risk_result.message))
                   /\ pc' = [pc EXCEPT ![o] = "done"]
              ELSE /\ orders' = [orders EXCEPT ![o].status = "APPROVED"]
                   /\ replies' = Put(replies, o,
                                     OrderResponse(order, "APPROVED",
                                         "Order approved and submitted for execution"))
                   /\ pc' = [pc EXCEPT ![o] = "scheduled"]
    /\ risk_lock' = None
    /\ UNCHANGED <<config, daily_volume, daily_volume_reset, execution_keys,
                   circuit_breaker_failures, circuit_breaker_open_until, local, attempt,
                   conflicts, exchange, now>>
    /\ running' = None
    /\ Log(FinishRiskCheckLocks(o))

\* ExecuteStart without the append of EXECUTION_STARTED.
ExecuteStart_NoStartedEvent(o) ==
    /\ o \in DOMAIN pc /\ pc[o] = "scheduled"
    /\ running = None
    /\ IF circuit_breaker_open_until # None /\ now < circuit_breaker_open_until[1]
       THEN /\ orders' = [orders EXCEPT ![o].status = "FAILED",
                                        ![o].rejection_reason =
                                            Some("Circuit breaker open")]
            /\ pc' = [pc EXCEPT ![o] = "done"]
            /\ UNCHANGED <<circuit_breaker_failures, circuit_breaker_open_until,
                           storeVars, attempt>>
       ELSE /\ IF circuit_breaker_open_until # None
               THEN /\ circuit_breaker_open_until' = None
                    /\ circuit_breaker_failures' = 0
               ELSE UNCHANGED <<circuit_breaker_failures, circuit_breaker_open_until>>
            /\ orders' = [orders EXCEPT ![o].status = "EXECUTING"]
            /\ UNCHANGED storeVars
            /\ attempt' = Put(attempt, o, 0)
            /\ pc' = [pc EXCEPT ![o] = "attempt"]
    /\ UNCHANGED <<riskVars, execution_keys, local, risk_results, replies, conflicts, exchange, now>>
    /\ UNCHANGED running
    /\ Log(ExecuteStartLocks)

\* ExecuteStart with the comparison of the admission test turned round.
ExecuteStart_InvertedBreakerTest(o) ==
    /\ o \in DOMAIN pc /\ pc[o] = "scheduled"
    /\ running = None
    /\ IF circuit_breaker_open_until # None /\ now > circuit_breaker_open_until[1]
       THEN /\ orders' = [orders EXCEPT ![o].status = "FAILED",
                                        ![o].rejection_reason =
                                            Some("Circuit breaker open")]
            /\ pc' = [pc EXCEPT ![o] = "done"]
            /\ UNCHANGED <<circuit_breaker_failures, circuit_breaker_open_until,
                           storeVars, attempt>>
       ELSE /\ IF circuit_breaker_open_until # None
               THEN /\ circuit_breaker_open_until' = None
                    /\ circuit_breaker_failures' = 0
               ELSE UNCHANGED <<circuit_breaker_failures, circuit_breaker_open_until>>
            /\ orders' = [orders EXCEPT ![o].status = "EXECUTING"]
            /\ StoreAppend(Event("EXECUTION_STARTED", orders[o].correlation_id, o,
                                 [retry_attempt |-> orders[o].retry_count],
                                 orders[o].user_id))
            /\ attempt' = Put(attempt, o, 0)
            /\ pc' = [pc EXCEPT ![o] = "attempt"]
    /\ UNCHANGED <<riskVars, execution_keys, local, risk_results, replies, conflicts, exchange, now>>
    /\ UNCHANGED running
    /\ Log(ExecuteStartLocks)

\* ExecuteStart whose reset clears open_until and keeps the failure count.
ExecuteStart_ResetKeepsCount(o) ==
    /\ o \in DOMAIN pc /\ pc[o] = "scheduled"
    /\ running = None
    /\ IF circuit_breaker_open_until # None /\ now < circuit_breaker_open_until[1]
       THEN /\ orders' = [orders EXCEPT ![o].status = "FAILED",
                                        ![o].rejection_reason =
                                            Some("Circuit breaker open")]
            /\ pc' = [pc EXCEPT ![o] = "done"]
            /\ UNCHANGED <<circuit_breaker_failures, circuit_breaker_open_until,
                           storeVars, attempt>>
       ELSE /\ IF circuit_breaker_open_until # None
               THEN /\ circuit_breaker_open_until' = None
                    /\ UNCHANGED circuit_breaker_failures
               ELSE UNCHANGED <<circuit_breaker_failures, circuit_breaker_open_until>>
            /\ orders' = [orders EXCEPT ![o].status = "EXECUTING"]
            /\ StoreAppend(Event("EXECUTION_STARTED", orders[o].correlation_id, o,
                                 [retry_attempt |-> orders[o].retry_count],
                                 orders[o].user_id))
            /\ attempt' = Put(attempt, o, 0)
            /\ pc' = [pc EXCEPT ![o] = "attempt"]
    /\ UNCHANGED <<riskVars, execution_keys, local, risk_results, replies, conflicts, exchange, now>>
    /\ UNCHANGED running
    /\ Log(ExecuteStartLocks)

\* ExecuteStart that leaves the status APPROVED when execution starts.
ExecuteStart_SkipExecuting(o) ==
    /\ o \in DOMAIN pc /\ pc[o] = "scheduled"
    /\ running = None
    /\ IF circuit_breaker_open_until # None /\ now < circuit_breaker_open_until[1]
       THEN /\ orders' = [orders EXCEPT ![o].status = "FAILED",
                                        ![o].rejection_reason =
                                            Some("Circuit breaker open")]
            /\ pc' = [pc EXCEPT ![o] = "done"]
            /\ UNCHANGED <<circuit_breaker_failures, circuit_breaker_open_until,
                           storeVars, attempt>>
       ELSE /\ IF circuit_breaker_open_until # None
               THEN /\ circuit_breaker_open_until' = None
                    /\ circuit_breaker_failures' = 0
               ELSE UNCHANGED <<circuit_breaker_failures, circuit_breaker_open_until>>
            /\ UNCHANGED orders
            /\ StoreAppend(Event("EXECUTION_STARTED", orders[o].correlation_id, o,
                                 [retry_attempt |-> orders[o].retry_count],
                                 orders[o].user_id))
            /\ attempt' = Put(attempt, o, 0)
            /\ pc' = [pc EXCEPT ![o] = "attempt"]
    /\ UNCHANGED <<riskVars, execution_keys, local, risk_results, replies, conflicts, exchange, now>>
    /\ UNCHANGED running
    /\ Log(ExecuteStartLocks)

\* _execute_order, lines 576-599: the circuit-breaker admission, then EXECUTING and
\* EXECUTION_STARTED.
ExecuteStart(o) ==
    /\ o \in DOMAIN pc /\ pc[o] = "scheduled"
    /\ running = None
    /\ IF circuit_breaker_open_until # None /\ now < circuit_breaker_open_until[1]
       THEN /\ orders' = [orders EXCEPT ![o].status = "FAILED",
                                        ![o].rejection_reason =
                                            Some("Circuit breaker open")]
            /\ pc' = [pc EXCEPT ![o] = "done"]
            /\ UNCHANGED <<circuit_breaker_failures, circuit_breaker_open_until,
                           storeVars, attempt>>
       ELSE /\ IF circuit_breaker_open_until # None
               THEN /\ circuit_breaker_open_until' = None
                    /\ circuit_breaker_failures' = 0
               ELSE UNCHANGED <<circuit_breaker_failures, circuit_breaker_open_until>>
            /\ orders' = [orders EXCEPT ![o].status = "EXECUTING"]
            /\ StoreAppend(Event("EXECUTION_STARTED", orders[o].correlation_id, o,
                                 [retry_attempt |-> orders[o].retry_count],
                                 orders[o].user_id))
            /\ attempt' = Put(attempt, o, 0)
            /\ pc' = [pc EXCEPT ![o] = "attempt"]
    /\ UNCHANGED <<riskVars, execution_keys, local, risk_results, replies, conflicts, exchange, now>>
    /\ UNCHANGED running
    /\ Log(ExecuteStartLocks)

\* order.price * (1 + random.uniform(-0.001, 0.001)), the jitter in thousandths
ExecutedPrice(price, jitter) == (price * (1000 + jitter)) \div 1000

\* AttemptSuccess that goes to the EXECUTION_COMPLETED append without update_position.
AttemptSuccess_SkipsUpdate(o, jitter) ==
    /\ o \in DOMAIN pc /\ pc[o] = "attempt"
    /\ running = None
    /\ orders' = [orders EXCEPT ![o].executed_quantity = orders[o].quantity,
                                ![o].executed_price =
                                    Some(ExecutedPrice(orders[o].price, jitter)),
                                ![o].status = "EXECUTED"]
    /\ pc' = [pc EXCEPT ![o] = "emit_completed"]
    /\ UNCHANGED <<execution_keys, circuit_breaker_failures, circuit_breaker_open_until>>
    /\ UNCHANGED <<storeVars, riskVars, local, attempt, risk_results, replies,
                   conflicts, exchange, now>>
    /\ running' = Some(o)
    /\ Log({Write({}, "order")})

\* AttemptSuccess that leaves executed_quantity at 0.
AttemptSuccess_NoExecutedQuantity(o, jitter) ==
    /\ o \in DOMAIN pc /\ pc[o] = "attempt"
    /\ running = None
    /\ orders' = [orders EXCEPT ![o].executed_quantity = 0,
                                ![o].executed_price =
                                    Some(ExecutedPrice(orders[o].price, jitter)),
                                ![o].status = "EXECUTED"]
    /\ pc' = [pc EXCEPT ![o] = "settle"]
    /\ UNCHANGED <<execution_keys, circuit_breaker_failures, circuit_breaker_open_until>>
    /\ UNCHANGED <<storeVars, riskVars, local, attempt, risk_results, replies,
                   conflicts, exchange, now>>
    /\ running' = Some(o)
    /\ Log({Write({}, "order")})

\* _execute_order, lines 605-613: the attempt succeeds (random.random() < 0.9).
AttemptSuccess(o, jitter) ==
    /\ o \in DOMAIN pc /\ pc[o] = "attempt"
    /\ running = None
    /\ orders' = [orders EXCEPT ![o].executed_quantity = orders[o].quantity,
                                ![o].executed_price =
                                    Some(ExecutedPrice(orders[o].price, jitter)),
                                ![o].status = "EXECUTED"]
    /\ pc' = [pc EXCEPT ![o] = "settle"]
    /\ UNCHANGED <<execution_keys, circuit_breaker_failures, circuit_breaker_open_until>>
    /\ UNCHANGED <<storeVars, riskVars, local, attempt, risk_results, replies,
                   conflicts, exchange, now>>
    /\ running' = Some(o)
    /\ Log({Write({}, "order")})

\* _execute_order, line 616, and update_position, lines 387-411
UpdatePosition(o) ==
    /\ o \in DOMAIN pc /\ pc[o] = "settle"
    /\ running = Some(o)
    /\ risk_lock = None
    /\ LET order == orders[o]
           position == IF order.symbol \in DOMAIN positions THEN positions[order.symbol]
                       ELSE Position(order.symbol, 0, Frac(0, 1))
       IN  /\ positions' = Put(positions, order.symbol, PositionAfterFill(position, order))
           /\ daily_volume' = daily_volume + notional_value(order)
    /\ pc' = [pc EXCEPT ![o] = "emit_completed"]
    /\ UNCHANGED <<config, daily_volume_reset, risk_lock>>
    /\ UNCHANGED <<storeVars, engineVars, local, attempt, risk_results, replies,
                   conflicts, exchange, now>>
    /\ UNCHANGED running
    /\ Log(UpdatePositionLocks)

\* EmitExecutionCompleted without the return: the retry loop goes on.
EmitExecutionCompleted_NoReturn(o) ==
    /\ o \in DOMAIN pc /\ pc[o] = "emit_completed"
    /\ running = Some(o)
    /\ StoreAppend(Event("EXECUTION_COMPLETED", orders[o].correlation_id, o,
                         [executed_quantity |-> orders[o].executed_quantity,
                          executed_price |-> orders[o].executed_price[1],
                          retry_attempt |-> attempt[o]],
                         orders[o].user_id))
    /\ pc' = [pc EXCEPT ![o] = "attempt"]
    /\ UNCHANGED <<riskVars, engineVars, local, attempt, risk_results, replies,
                   conflicts, exchange, now>>
    /\ running' = None
    /\ Log(AppendLocks({}))

\* _execute_order, lines 618-634
EmitExecutionCompleted(o) ==
    /\ o \in DOMAIN pc /\ pc[o] = "emit_completed"
    /\ running = Some(o)
    /\ StoreAppend(Event("EXECUTION_COMPLETED", orders[o].correlation_id, o,
                         [executed_quantity |-> orders[o].executed_quantity,
                          executed_price |-> orders[o].executed_price[1],
                          retry_attempt |-> attempt[o]],
                         orders[o].user_id))
    /\ pc' = [pc EXCEPT ![o] = "done"]
    /\ UNCHANGED <<riskVars, engineVars, local, attempt, risk_results, replies,
                   conflicts, exchange, now>>
    /\ running' = None
    /\ Log(AppendLocks({}))

\* AttemptFailure that counts every failed attempt in the circuit breaker.
AttemptFailure_CountsEveryAttempt(o) ==
    /\ o \in DOMAIN pc /\ pc[o] = "attempt"
    /\ running = None
    /\ IF attempt[o] < MAX_RETRY_ATTEMPTS - 1
       THEN /\ orders' = [orders EXCEPT ![o].retry_count = @ + 1]
            /\ attempt' = [attempt EXCEPT ![o] = @ + 1]
            /\ circuit_breaker_failures' = circuit_breaker_failures + 1
            /\ UNCHANGED <<pc, circuit_breaker_open_until, running>>
       ELSE /\ orders' = [orders EXCEPT ![o].retry_count = @ + 1,
                                        ![o].status = "FAILED",
                                        ![o].rejection_reason =
                                            Some("Execution failed after "
                                                 \o ToString(MAX_RETRY_ATTEMPTS)
                                                 \o " attempts")]
            /\ circuit_breaker_failures' = circuit_breaker_failures + 1
            /\ circuit_breaker_open_until' =
                   IF circuit_breaker_failures + 1 >= CIRCUIT_BREAKER_THRESHOLD
                   THEN Some(now + CIRCUIT_BREAKER_TIMEOUT)
                   ELSE circuit_breaker_open_until
            /\ pc' = [pc EXCEPT ![o] = "emit_failed"]
            /\ running' = Some(o)
            /\ UNCHANGED attempt
    /\ UNCHANGED <<storeVars, riskVars, execution_keys, local, risk_results, replies,
                   conflicts, exchange, now>>
    /\ Log(AttemptFailureLocks(o))

\* AttemptFailure whose loop makes one attempt more.
AttemptFailure_ExtraAttempt(o) ==
    /\ o \in DOMAIN pc /\ pc[o] = "attempt"
    /\ running = None
    /\ IF attempt[o] < MAX_RETRY_ATTEMPTS
       THEN /\ orders' = [orders EXCEPT ![o].retry_count = @ + 1]
            /\ attempt' = [attempt EXCEPT ![o] = @ + 1]
            /\ UNCHANGED <<pc, circuit_breaker_failures, circuit_breaker_open_until,
                           running>>
       ELSE /\ orders' = [orders EXCEPT ![o].retry_count = @ + 1,
                                        ![o].status = "FAILED",
                                        ![o].rejection_reason =
                                            Some("Execution failed after "
                                                 \o ToString(MAX_RETRY_ATTEMPTS)
                                                 \o " attempts")]
            /\ circuit_breaker_failures' = circuit_breaker_failures + 1
            /\ circuit_breaker_open_until' =
                   IF circuit_breaker_failures + 1 >= CIRCUIT_BREAKER_THRESHOLD
                   THEN Some(now + CIRCUIT_BREAKER_TIMEOUT)
                   ELSE circuit_breaker_open_until
            /\ pc' = [pc EXCEPT ![o] = "emit_failed"]
            /\ running' = Some(o)
            /\ UNCHANGED attempt
    /\ UNCHANGED <<storeVars, riskVars, execution_keys, local, risk_results, replies,
                   conflicts, exchange, now>>
    /\ Log(AttemptFailureLocks(o))

\* _execute_order, lines 636-656: the attempt fails; the backoff sleep and the next
\* attempt, or the final failure and the circuit-breaker count.
AttemptFailure(o) ==
    /\ o \in DOMAIN pc /\ pc[o] = "attempt"
    /\ running = None
    /\ IF attempt[o] < MAX_RETRY_ATTEMPTS - 1
       THEN /\ orders' = [orders EXCEPT ![o].retry_count = @ + 1]
            /\ attempt' = [attempt EXCEPT ![o] = @ + 1]
            /\ UNCHANGED <<pc, circuit_breaker_failures, circuit_breaker_open_until,
                           running>>
       ELSE /\ orders' = [orders EXCEPT ![o].retry_count = @ + 1,
                                        ![o].status = "FAILED",
                                        ![o].rejection_reason =
                                            Some("Execution failed after "
                                                 \o ToString(MAX_RETRY_ATTEMPTS)
                                                 \o " attempts")]
            /\ circuit_breaker_failures' = circuit_breaker_failures + 1
            /\ circuit_breaker_open_until' =
                   IF circuit_breaker_failures + 1 >= CIRCUIT_BREAKER_THRESHOLD
                   THEN Some(now + CIRCUIT_BREAKER_TIMEOUT)
                   ELSE circuit_breaker_open_until
            /\ pc' = [pc EXCEPT ![o] = "emit_failed"]
            /\ running' = Some(o)
            /\ UNCHANGED attempt
    /\ UNCHANGED <<storeVars, riskVars, execution_keys, local, risk_results, replies,
                   conflicts, exchange, now>>
    /\ Log(AttemptFailureLocks(o))

\* EmitExecutionFailed that writes the failure into the reply of the submission.
EmitExecutionFailed_UpdatesReply(o) ==
    /\ o \in DOMAIN pc /\ pc[o] = "emit_failed"
    /\ running = Some(o)
    /\ StoreAppend(Event("EXECUTION_FAILED", orders[o].correlation_id, o,
                         [reason |-> orders[o].rejection_reason[1],
                          retry_attempts |-> orders[o].retry_count],
                         orders[o].user_id))
    /\ pc' = [pc EXCEPT ![o] = "done"]
    /\ replies' = [replies EXCEPT ![o].status = "FAILED"]
    /\ UNCHANGED <<riskVars, engineVars, local, attempt, risk_results,
                   conflicts, exchange, now>>
    /\ running' = None
    /\ Log(AppendLocks({}))

\* _execute_order, lines 658-670
EmitExecutionFailed(o) ==
    /\ o \in DOMAIN pc /\ pc[o] = "emit_failed"
    /\ running = Some(o)
    /\ StoreAppend(Event("EXECUTION_FAILED", orders[o].correlation_id, o,
                         [reason |-> orders[o].rejection_reason[1],
                          retry_attempts |-> orders[o].retry_count],
                         orders[o].user_id))
    /\ pc' = [pc EXCEPT ![o] = "done"]
    /\ UNCHANGED <<riskVars, engineVars, local, attempt, risk_results, replies,
                   conflicts, exchange, now>>
    /\ running' = None
    /\ Log(AppendLocks({}))

\* Time passes.
Tick(seconds) ==
    /\ now' = now + seconds
    /\ UNCHANGED <<storeVars, riskVars, engineVars, taskVars, conflicts, exchange, running>>
    /\ UNCHANGED lock_log

\* ------------------------------------------------------------------------
\* Authorisation and the HTTP layer
\* ------------------------------------------------------------------------
\* AuthManager.check_permission: role_hierarchy
role_hierarchy ==
    ("TRADER" :> 1) @@ ("RISK_MANAGER" :> 2) @@ ("COMPLIANCE" :> 3) @@ ("ADMIN" :> 4)

\* check_permission whose test is equality of the levels.
check_permission_ExactRole(user_role, required_role) ==
    LET user_level == role_hierarchy[user_role]
        required_level == IF required_role \in DOMAIN role_hierarchy
                          THEN role_hierarchy[required_role] ELSE 0
    IN  user_level = required_level

\* AuthManager.check_permission; UserRole(user_role) is a member of the enum
check_permission(user_role, required_role) ==
    LET user_level == role_hierarchy[user_role]
        required_level == IF required_role \in DOMAIN role_hierarchy
                          THEN role_hierarchy[required_role] ELSE 0
    IN  user_level >= required_level

\* Depends(require_role(...)) of the role-gated endpoints
RequiredRole ==
    ("POST /orders" :> "TRADER") @@ ("GET /risk/limits" :> "RISK_MANAGER")
    @@ ("PUT /risk/limits" :> "RISK_MANAGER") @@ ("POST /risk/kill-switch" :> "RISK_MANAGER")
    @@ ("GET /audit/events" :> "COMPLIANCE")
    @@ ("GET /audit/correlation" :> "COMPLIANCE") @@ ("GET /audit/order/trail" :> "COMPLIANCE")

\* One request and its answer
Exchange(endpoint, role, request, status_code, body) ==
    Some([endpoint |-> endpoint, role |-> role, request |-> request,
          status_code |-> status_code, body |-> body])

\* role_checker raises HTTP 403 and the handler is not called
Forbidden(endpoint, role, request) ==
    /\ running = None
    /\ exchange' = Exchange(endpoint, role, request, 403,
                            "Insufficient permissions. Required: " \o RequiredRole[endpoint])
    /\ UNCHANGED <<storeVars, riskVars, engineVars, taskVars, conflicts, lock_log,
                   running, now>>

\* POST /orders: the answer of an admitted submission is in replies or conflicts
PostOrders(role, request, user_id) ==
    IF check_permission(role, RequiredRole["POST /orders"])
    THEN SubmitOrder(request, user_id)
    ELSE Forbidden("POST /orders", role, request)

\* GET /risk/limits
GetRiskLimits(role) ==
    IF check_permission(role, RequiredRole["GET /risk/limits"])
    THEN /\ running = None
         /\ exchange' = Exchange("GET /risk/limits", role, None, 200, config)
         /\ UNCHANGED <<storeVars, riskVars, engineVars, taskVars, conflicts, lock_log,
                        running, now>>
    ELSE Forbidden("GET /risk/limits", role, None)

\* PUT /risk/limits: `return config`, the object that was stored
PutRiskLimits(role, new_config) ==
    IF check_permission(role, RequiredRole["PUT /risk/limits"])
    THEN /\ UpdateRiskLimits(new_config)
         /\ exchange' = Exchange("PUT /risk/limits", role, new_config, 200, new_config)
    ELSE Forbidden("PUT /risk/limits", role, new_config)

\* POST /risk/kill-switch
PostKillSwitch(role, enabled) ==
    IF check_permission(role, RequiredRole["POST /risk/kill-switch"])
    THEN /\ ToggleKillSwitch(enabled)
         /\ exchange' = Exchange("POST /risk/kill-switch", role, enabled, 200,
                                 [kill_switch_enabled |-> enabled,
                                  message |-> IF enabled THEN "Kill switch activated"
                                              ELSE "Kill switch deactivated"])
    ELSE Forbidden("POST /risk/kill-switch", role, enabled)

\* GET /audit/events
GetEvents(role, limit) ==
    IF check_permission(role, RequiredRole["GET /audit/events"])
    THEN /\ running = None
         /\ exchange' = Exchange("GET /audit/events", role, limit, 200,
                                 [events |-> get_all_events(limit),
                                  total |-> Len(get_all_events(limit))])
         /\ Log({Acquire({}, "store")})
         /\ UNCHANGED <<storeVars, riskVars, engineVars, taskVars, conflicts,
                        running, now>>
    ELSE Forbidden("GET /audit/events", role, limit)

\* ------------------------------------------------------------------------
\* Specification: orders on two symbols, limits replaced, kill switch toggled
\* ------------------------------------------------------------------------
\* A buy, the sell that closes it and the sell that turns it short on AAPL, and a
\* buy on a second symbol.
Requests ==
    {OrderRequest("AAPL", "BUY", 1, 1000, None), OrderRequest("AAPL", "SELL", 1, 1000, None),
     OrderRequest("AAPL", "SELL", 2, 1000, None), OrderRequest("MSFT", "BUY", 1, 1000, None)}

\* Limits a risk manager may PUT: the defaults, and limits of the size of one order.
TightConfig(ks) == RiskLimitsConfig(1000, 2000, 1000, 2000, ks)
LimitConfigs ==
    {RiskLimitsConfig(DEFAULT_MAX_POSITION_SIZE, DEFAULT_MAX_DAILY_VOLUME,
                      DEFAULT_MAX_NET_EXPOSURE, DEFAULT_MAX_GROSS_EXPOSURE, ks) :
        ks \in BOOLEAN}
    \cup {TightConfig(ks) : ks \in BOOLEAN}

\* A submission is taken while the bounds leave room for its order; a duplicate
\* makes no order and is always taken.
Admitted(request, user_id, max_orders, max_in_flight) ==
    \/ generate_execution_key(request, user_id) \in execution_keys
    \/ /\ Cardinality(execution_keys) < max_orders
       /\ Cardinality(InFlight) < max_in_flight

Next ==
    \/ \E request \in Requests, user_id \in Users :
           Admitted(request, user_id, MaxOrders, MaxInFlight) /\ SubmitOrder(request, user_id)
    \/ \E o \in DOMAIN pc : CreateOrder(o)
    \/ \E o \in DOMAIN pc : EmitOrderCreated(o)
    \/ \E o \in DOMAIN pc : BeginRiskCheck(o)
    \/ \E o \in DOMAIN pc : FinishRiskCheck(o)
    \/ \E o \in DOMAIN pc : ExecuteStart(o)
    \/ \E o \in DOMAIN pc, jitter \in Jitters : AttemptSuccess(o, jitter)
    \/ \E o \in DOMAIN pc : AttemptFailure(o)
    \/ \E o \in DOMAIN pc : UpdatePosition(o)
    \/ \E o \in DOMAIN pc : EmitExecutionCompleted(o)
    \/ \E o \in DOMAIN pc : EmitExecutionFailed(o)
    \/ \E new_config \in LimitConfigs :
           UpdateRiskLimits(new_config) /\ UNCHANGED exchange
    \/ \E enabled \in BOOLEAN : ToggleKillSwitch(enabled) /\ UNCHANGED exchange

Spec == Init /\ [][Next]_vars

\* ------------------------------------------------------------------------
\* Specification: a stream of distinct orders for one symbol against a venue that
\* mostly fails, the kill switch toggled, the clock crossing the breaker's timeout
\* ------------------------------------------------------------------------
\* Client order ids are opaque: the k-th new one is named BreakerClientIds[k].
BreakerClientIds == <<"K1", "K2", "K3", "K4", "K5", "K6", "K7", "K8">>
BreakerRequests ==
    {OrderRequest("AAPL", "BUY", 1, 1000,
                  Some(BreakerClientIds[Cardinality(execution_keys) + 1]))}

Fills == {o \in DOMAIN orders : orders[o].status = "EXECUTED"}

NextBreaker ==
    \/ \E request \in BreakerRequests, user_id \in Users :
           Admitted(request, user_id, MaxBreakerOrders, MaxBreakerInFlight)
           /\ SubmitOrder(request, user_id)
    \/ \E o \in DOMAIN pc : CreateOrder(o)
    \/ \E o \in DOMAIN pc : EmitOrderCreated(o)
    \/ \E o \in DOMAIN pc : BeginRiskCheck(o)
    \/ \E o \in DOMAIN pc : FinishRiskCheck(o)
    \/ \E o \in DOMAIN pc : ExecuteStart(o)
    \/ \E o \in DOMAIN pc :
           Cardinality(Fills) < MaxBreakerFills /\ AttemptSuccess(o, 0)
    \/ \E o \in DOMAIN pc : AttemptFailure(o)
    \/ \E o \in DOMAIN pc : UpdatePosition(o)
    \/ \E o \in DOMAIN pc : EmitExecutionCompleted(o)
    \/ \E o \in DOMAIN pc : EmitExecutionFailed(o)
    \/ \E enabled \in BOOLEAN : ToggleKillSwitch(enabled) /\ UNCHANGED exchange
    \/ now + CIRCUIT_BREAKER_TIMEOUT <= MaxTimeouts * CIRCUIT_BREAKER_TIMEOUT
       /\ Tick(CIRCUIT_BREAKER_TIMEOUT)

SpecBreaker == Init /\ [][NextBreaker]_vars

\* ------------------------------------------------------------------------
\* Specification: distinct orders for one symbol, metrics read, the clock crossing
\* midnight UTC
\* ------------------------------------------------------------------------
NextDay ==
    \/ \E request \in BreakerRequests, user_id \in Users :
           Admitted(request, user_id, MaxDayOrders, MaxDayInFlight)
           /\ SubmitOrder(request, user_id)
    \/ \E o \in DOMAIN pc : CreateOrder(o)
    \/ \E o \in DOMAIN pc : EmitOrderCreated(o)
    \/ \E o \in DOMAIN pc : BeginRiskCheck(o)
    \/ \E o \in DOMAIN pc : FinishRiskCheck(o)
    \/ \E o \in DOMAIN pc : ExecuteStart(o)
    \/ \E o \in DOMAIN pc : AttemptSuccess(o, 0)
    \/ \E o \in DOMAIN pc : AttemptFailure(o)
    \/ \E o \in DOMAIN pc : UpdatePosition(o)
    \/ \E o \in DOMAIN pc : EmitExecutionCompleted(o)
    \/ \E o \in DOMAIN pc : EmitExecutionFailed(o)
    \/ GetMetrics
    \/ now + SecondsPerDay <= MaxDays * SecondsPerDay /\ Tick(SecondsPerDay)

SpecDay == Init /\ [][NextDay]_vars

\* GET /audit/correlation/{correlation_id}
GetCorrelationTrail(role, correlation_id) ==
    IF check_permission(role, RequiredRole["GET /audit/correlation"])
    THEN /\ running = None
         /\ exchange' =
                IF replay(correlation_id) = <<>>
                THEN Exchange("GET /audit/correlation", role, correlation_id, 404,
                              "No events found for correlation ID")
                ELSE Exchange("GET /audit/correlation", role, correlation_id, 200,
                              [correlation_id |-> correlation_id,
                               events |-> replay(correlation_id),
                               total_events |-> Len(replay(correlation_id))])
         /\ Log({Acquire({}, "store")})
         /\ UNCHANGED <<storeVars, riskVars, engineVars, taskVars, conflicts,
                        running, now>>
    ELSE Forbidden("GET /audit/correlation", role, correlation_id)

\* GET /audit/order/{order_id}/trail
GetOrderTrail(role, order_id) ==
    IF check_permission(role, RequiredRole["GET /audit/order/trail"])
    THEN /\ running = None
         /\ exchange' =
                IF get_by_order(order_id) = <<>>
                THEN Exchange("GET /audit/order/trail", role, order_id, 404,
                              "No events found for order ID")
                ELSE Exchange("GET /audit/order/trail", role, order_id, 200,
                              [order_id |-> order_id,
                               events |-> get_by_order(order_id),
                               total_events |-> Len(get_by_order(order_id))])
         /\ Log({Acquire({}, "store")})
         /\ UNCHANGED <<storeVars, riskVars, engineVars, taskVars, conflicts,
                        running, now>>
    ELSE Forbidden("GET /audit/order/trail", role, order_id)

\* ------------------------------------------------------------------------
\* Specification: one order, and the role-gated endpoints called with a token of
\* every role
\* ------------------------------------------------------------------------
Limits == 0..MaxLimit

NextControl ==
    \/ \E role \in UserRole, request \in BreakerRequests, user_id \in Users :
           Admitted(request, user_id, MaxControlOrders, MaxControlInFlight)
           /\ PostOrders(role, request, user_id)
    \/ \E o \in DOMAIN pc : CreateOrder(o)
    \/ \E o \in DOMAIN pc : EmitOrderCreated(o)
    \/ \E o \in DOMAIN pc : BeginRiskCheck(o)
    \/ \E o \in DOMAIN pc : FinishRiskCheck(o)
    \/ \E o \in DOMAIN pc : ExecuteStart(o)
    \/ \E o \in DOMAIN pc : AttemptSuccess(o, 0)
    \/ \E o \in DOMAIN pc : AttemptFailure(o)
    \/ \E o \in DOMAIN pc : UpdatePosition(o)
    \/ \E o \in DOMAIN pc : EmitExecutionCompleted(o)
    \/ \E o \in DOMAIN pc : EmitExecutionFailed(o)
    \/ \E role \in UserRole : GetRiskLimits(role)
    \/ \E role \in UserRole, new_config \in LimitConfigs : PutRiskLimits(role, new_config)
    \/ \E role \in UserRole, enabled \in BOOLEAN : PostKillSwitch(role, enabled)
    \/ \E role \in UserRole, limit \in Limits : GetEvents(role, limit)
    \/ \E role \in UserRole, correlation_id \in {0 - k : k \in 1..MaxControlOrders} :
           GetCorrelationTrail(role, correlation_id)
    \/ \E role \in UserRole, order_id \in 1..MaxControlOrders :
           GetOrderTrail(role, order_id)

SpecControl == Init /\ [][NextControl]_vars

\* ------------------------------------------------------------------------
\* Specification: the limits are set before the first submission and then held
\* fixed; orders of equal notional are submitted and executed within one day
\* ------------------------------------------------------------------------
VolumeRequests ==
    {OrderRequest("AAPL", "BUY", 1, 1000, None), OrderRequest("AAPL", "SELL", 1, 1000, None),
     OrderRequest("MSFT", "BUY", 1, 1000, None)}

NextVolume ==
    \/ \E new_config \in LimitConfigs :
           DOMAIN pc = {} /\ UpdateRiskLimits(new_config) /\ UNCHANGED exchange
    \/ \E request \in VolumeRequests, user_id \in Users :
           Admitted(request, user_id, MaxVolumeOrders, MaxVolumeInFlight)
           /\ SubmitOrder(request, user_id)
    \/ \E o \in DOMAIN pc : CreateOrder(o)
    \/ \E o \in DOMAIN pc : EmitOrderCreated(o)
    \/ \E o \in DOMAIN pc : BeginRiskCheck(o)
    \/ \E o \in DOMAIN pc : FinishRiskCheck(o)
    \/ \E o \in DOMAIN pc : ExecuteStart(o)
    \/ \E o \in DOMAIN pc : AttemptSuccess(o, 0)
    \/ \E o \in DOMAIN pc : UpdatePosition(o)
    \/ \E o \in DOMAIN pc : EmitExecutionCompleted(o)

SpecVolume == Init /\ [][NextVolume]_vars

\* ------------------------------------------------------------------------
\* Specification: the event loop runs every task that is ready, and every sleep ends
\* ------------------------------------------------------------------------
\* A step of the coroutines of submission o: submit_order and _execute_order
TaskStep(o) ==
    \/ CreateOrder(o)
    \/ EmitOrderCreated(o)
    \/ BeginRiskCheck(o)
    \/ FinishRiskCheck(o)
    \/ ExecuteStart(o)
    \/ AttemptSuccess(o, 0)
    \/ AttemptFailure(o)
    \/ UpdatePosition(o)
    \/ EmitExecutionCompleted(o)
    \/ EmitExecutionFailed(o)

NextLive ==
    \/ \E request \in BreakerRequests, user_id \in Users :
           Admitted(request, user_id, MaxLiveOrders, MaxLiveInFlight)
           /\ SubmitOrder(request, user_id)
    \/ \E o \in DOMAIN pc : TaskStep(o)
    \/ \E enabled \in BOOLEAN : ToggleKillSwitch(enabled) /\ UNCHANGED exchange

SpecLive ==
    Init /\ [][NextLive]_vars /\ \A o \in 1..MaxLiveOrders : WF_vars(TaskStep(o))

\* ------------------------------------------------------------------------
\* Properties
\* ------------------------------------------------------------------------
TerminalStatus == {"REJECTED", "EXECUTED", "FAILED"}
ExecutionEvents == {"EXECUTION_STARTED", "EXECUTION_COMPLETED", "EXECUTION_FAILED"}

\* The event types of a list of events, in its order
TypesOf(evs) == [i \in 1..Len(evs) |-> evs[i].event_type]
CountOf(evs, event_type) ==
    Cardinality({i \in 1..Len(evs) : evs[i].event_type = event_type})
IsPrefix(s, t) == Len(s) <= Len(t) /\ \A i \in 1..Len(s) : s[i] = t[i]

\* The submission's processing has finished: submit_order has returned and the
\* background task, if one was created, has ended.
Finished(o) == o \in DOMAIN orders /\ pc[o] = "done"

\* The idempotency key of an accepted submission
KeyOf(o) ==
    IF o \in DOMAIN orders THEN generate_execution_key(orders[o], orders[o].user_id)
    ELSE generate_execution_key(local[o].request, local[o].user_id)

BreakerOpen ==
    circuit_breaker_open_until # None /\ now < circuit_breaker_open_until[1]
BreakerExpired ==
    circuit_breaker_open_until # None /\ now >= circuit_breaker_open_until[1]
\* The step in which the background execution of o starts
Starts(o) == pc[o] = "scheduled" /\ pc'[o] # "scheduled"

\* C1: the events of every finished order begin with ORDER_CREATED and end with the
\* event of its terminal status: RISK_CHECK_FAILED for REJECTED, EXECUTION_COMPLETED
\* for EXECUTED, EXECUTION_FAILED for FAILED.
C1_LastEventMatchesTerminalStatus ==
    \A o \in DOMAIN orders :
        Finished(o) =>
            LET evs == get_by_order(o)
            IN  /\ orders[o].status \in TerminalStatus
                /\ Len(evs) > 0
                /\ evs[1].event_type = "ORDER_CREATED"
                /\ evs[Len(evs)].event_type =
                       CASE orders[o].status = "REJECTED" -> "RISK_CHECK_FAILED"
                         [] orders[o].status = "EXECUTED" -> "EXECUTION_COMPLETED"
                         [] orders[o].status = "FAILED" -> "EXECUTION_FAILED"

RejectedPath == <<"ORDER_CREATED", "RISK_CHECK_STARTED", "RISK_CHECK_FAILED">>
CompletedPath == <<"ORDER_CREATED", "RISK_CHECK_STARTED", "RISK_CHECK_PASSED",
                   "EXECUTION_STARTED", "EXECUTION_COMPLETED">>
FailedPath == <<"ORDER_CREATED", "RISK_CHECK_STARTED", "RISK_CHECK_PASSED",
                "EXECUTION_STARTED", "EXECUTION_FAILED">>
OnPath(types) ==
    IsPrefix(types, RejectedPath) \/ IsPrefix(types, CompletedPath)
    \/ IsPrefix(types, FailedPath)

\* C2: in every state the event types recorded for an order, read by get_by_order or
\* by get_by_correlation, are a prefix of the rejected path or of the executed or
\* failed path of the state machine; events are recorded for accepted orders only.
C2_EventsFollowStateMachine ==
    /\ DOMAIN events_by_order \subseteq DOMAIN orders
    /\ DOMAIN events_by_correlation \subseteq {orders[o].correlation_id : o \in DOMAIN orders}
    /\ \A o \in DOMAIN orders :
           /\ OnPath(TypesOf(get_by_order(o)))
           /\ OnPath(TypesOf(get_by_correlation(orders[o].correlation_id)))

\* An order executed on its third attempt and an order that failed all attempts, with
\* an event of the second inside the span of the first in the log
C2_Witness ==
    \E o1, o2 \in DOMAIN orders :
        /\ TypesOf(get_by_order(o1)) = CompletedPath
        /\ orders[o1].retry_count = 2
        /\ TypesOf(get_by_order(o2)) = FailedPath
        /\ \E i, j, k \in 1..Len(events) :
               /\ i < j /\ j < k
               /\ events[i].order_id = o1 /\ events[j].order_id = o2
               /\ events[k].order_id = o1

\* C3: once check_order has returned for an order, its events hold one
\* RISK_CHECK_STARTED and one result event, RISK_CHECK_PASSED if the violation list
\* is empty and RISK_CHECK_FAILED otherwise.
C3_OneResultEventPerCheck ==
    \A o \in DOMAIN risk_results :
        LET evs == get_by_order(o)
        IN  /\ CountOf(evs, "RISK_CHECK_STARTED") = 1
            /\ CountOf(evs, "RISK_CHECK_PASSED") + CountOf(evs, "RISK_CHECK_FAILED") = 1
            /\ CountOf(evs, "RISK_CHECK_PASSED") =
                   (IF risk_results[o].violations = <<>> THEN 1 ELSE 0)

\* C4: no two accepted submissions have the same idempotency key, every accepted key
\* is in the idempotency set and nothing else is, and HTTP 409 is only answered for a
\* key that an accepted submission holds: one order per fingerprint.
C4_OneOrderPerFingerprint ==
    /\ \A o1, o2 \in DOMAIN pc : KeyOf(o1) = KeyOf(o2) => o1 = o2
    /\ execution_keys = {KeyOf(o) : o \in DOMAIN pc}
    /\ conflicts \subseteq execution_keys
    /\ DOMAIN orders \subseteq DOMAIN pc

\* A duplicate was refused for an order that was REJECTED and for one that FAILED
C4_Witness ==
    \E o1, o2 \in DOMAIN orders :
        /\ Finished(o1) /\ orders[o1].status = "REJECTED" /\ KeyOf(o1) \in conflicts
        /\ Finished(o2) /\ orders[o2].status = "FAILED" /\ KeyOf(o2) \in conflicts

\* C5: a step that answers a submission with HTTP 409 leaves the order table, the
\* event log and its indices, the positions, daily_volume, the circuit breaker and
\* the idempotency set as they were, and starts no coroutine for an order.
C5_DuplicateChangesNothing ==
    [][conflicts' # conflicts =>
          UNCHANGED <<orders, events, events_by_correlation, events_by_order, positions,
                      daily_volume, daily_volume_reset, circuit_breaker_failures,
                      circuit_breaker_open_until, execution_keys, pc, local>>]_vars

\* A duplicate was refused while orders, events and a position exist
C5_Witness ==
    /\ conflicts # {}
    /\ DOMAIN positions # {}
    /\ Len(events) > 0
    /\ \E o \in DOMAIN orders : KeyOf(o) \in conflicts

\* The orders the circuit breaker blocked
Blocked == {o \in DOMAIN orders : orders[o].rejection_reason = Some("Circuit breaker open")}

\* C6: an execution that starts while the breaker is open moves its order to FAILED
\* with reason "Circuit breaker open" in that step, appends no event, changes no
\* position and no daily_volume, and ends; such an order never has an EXECUTION_*
\* event; and the breaker is set open whenever the failure count is at the threshold.
C6_BlockedWhileBreakerOpen ==
    /\ [](/\ \A o \in Blocked :
                /\ orders[o].status = "FAILED"
                /\ pc[o] = "done"
                /\ \A i \in 1..Len(get_by_order(o)) :
                       get_by_order(o)[i].event_type \notin ExecutionEvents
          /\ (circuit_breaker_failures >= CIRCUIT_BREAKER_THRESHOLD
                  => circuit_breaker_open_until # None))
    /\ [][\A o \in DOMAIN pc :
              (Starts(o) /\ BreakerOpen) =>
                  /\ orders'[o].status = "FAILED"
                  /\ orders'[o].rejection_reason = Some("Circuit breaker open")
                  /\ pc'[o] = "done"
                  /\ UNCHANGED <<events, events_by_correlation, events_by_order,
                                 positions, daily_volume>>]_vars

\* An order was blocked after the failure count reached the threshold
C6_Witness ==
    /\ Blocked # {}
    /\ circuit_breaker_failures >= CIRCUIT_BREAKER_THRESHOLD

\* C7: an execution that starts when open_until is set and has passed resets the
\* breaker in that step (count 0, open_until cleared), sets its order EXECUTING and
\* appends its EXECUTION_STARTED; and no other step clears open_until or lowers the
\* failure count.
C7_BreakerResetOnlyByExpiredStart ==
    [][/\ \A o \in DOMAIN pc :
              (Starts(o) /\ BreakerExpired) =>
                  /\ circuit_breaker_failures' = 0
                  /\ circuit_breaker_open_until' = None
                  /\ orders'[o].status = "EXECUTING"
                  /\ Len(events') = Len(events) + 1
                  /\ events'[Len(events')].event_type = "EXECUTION_STARTED"
                  /\ events'[Len(events')].order_id = o
       /\ ((circuit_breaker_open_until # None /\ circuit_breaker_open_until' = None)
           \/ circuit_breaker_failures' < circuit_breaker_failures)
              => \E o \in DOMAIN pc : Starts(o) /\ BreakerExpired]_vars

\* The breaker was opened by five failed orders and reset by the start of a sixth
C7_Witness ==
    /\ circuit_breaker_failures = 0
    /\ circuit_breaker_open_until = None
    /\ Cardinality({o \in DOMAIN orders :
                        orders[o].status = "FAILED" /\ orders[o].retry_count = 3})
           >= CIRCUIT_BREAKER_THRESHOLD
    /\ \E o \in DOMAIN orders : orders[o].status = "EXECUTING"

\* C8: an order whose status is REJECTED, EXECUTED or FAILED keeps that status in
\* every later step.
C8_TerminalStatusIsFinal ==
    [][\A o \in DOMAIN orders :
           orders[o].status \in TerminalStatus =>
               orders'[o].status = orders[o].status]_vars

\* Orders of the three terminal statuses, one of them blocked by the breaker, with the
\* kill switch toggled and a later order in progress
C8_Witness ==
    /\ \E o \in DOMAIN orders : orders[o].status = "REJECTED" /\ o < Cardinality(DOMAIN pc)
    /\ \E o \in DOMAIN orders : orders[o].status = "EXECUTED" /\ o < Cardinality(DOMAIN pc)
    /\ \E o \in DOMAIN orders : orders[o].status = "FAILED" /\ o < Cardinality(DOMAIN pc)
    /\ \E o \in DOMAIN orders : orders[o].status \notin TerminalStatus

StateMachineEdges ==
    {<<"PENDING", "RISK_CHECK">>, <<"RISK_CHECK", "APPROVED">>,
     <<"RISK_CHECK", "REJECTED">>, <<"APPROVED", "EXECUTING">>,
     <<"EXECUTING", "EXECUTED">>, <<"EXECUTING", "FAILED">>}

\* Every status change of a step is an edge of `edges`, an order enters the table in
\* PENDING, and no order is CANCELLED.
StatusChangesWithin(edges) ==
    \A o \in DOMAIN orders' :
        /\ orders'[o].status # "CANCELLED"
        /\ IF o \in DOMAIN orders
           THEN orders'[o].status # orders[o].status =>
                    <<orders[o].status, orders'[o].status>> \in edges
           ELSE orders'[o].status = "PENDING"

\* C9, as stated: every status change is one of the six edges PENDING->RISK_CHECK,
\* RISK_CHECK->APPROVED, RISK_CHECK->REJECTED, APPROVED->EXECUTING,
\* EXECUTING->EXECUTED, EXECUTING->FAILED, and no order is CANCELLED.
C9_OnlyStateMachineEdges == [][StatusChangesWithin(StateMachineEdges)]_vars

\* C9, amended: every status change is one of the six edges or APPROVED->FAILED; the
\* edge APPROVED->FAILED is taken exactly by an execution that starts while the
\* circuit breaker is open, with reason "Circuit breaker open"; no order is CANCELLED.
C9_EdgesWithBreakerBlock ==
    [][/\ StatusChangesWithin(StateMachineEdges \cup {<<"APPROVED", "FAILED">>})
       /\ \A o \in DOMAIN orders :
              (orders[o].status = "APPROVED" /\ orders'[o].status = "FAILED") =>
                  /\ BreakerOpen
                  /\ orders'[o].rejection_reason = Some("Circuit breaker open")
       /\ \A o \in DOMAIN orders :
              (Starts(o) /\ BreakerOpen) =>
                  orders[o].status = "APPROVED" /\ orders'[o].status = "FAILED"]_vars

\* An order failed after its attempts and an order was blocked by the breaker
C9_Witness ==
    /\ \E o \in Blocked : orders[o].status = "FAILED" /\ orders[o].retry_count = 0
    /\ \E o \in DOMAIN orders :
           orders[o].status = "FAILED" /\ o \notin Blocked /\ orders[o].retry_count = 3

KillSwitchResult ==
    RiskCheckResult(FALSE, <<"KILL_SWITCH_ACTIVE">>, KillSwitchMessage)

\* C10: a risk check evaluated while kill_switch_enabled is true returns passed =
\* false, violations [KILL_SWITCH_ACTIVE] and the kill-switch message, whatever the
\* order and the limits; the submission is answered REJECTED with that message, its
\* order is REJECTED with that reason, and no execution is ever scheduled for it.
C10_KillSwitchRejects ==
    /\ [][\A o \in DOMAIN pc :
              (pc[o] = "evaluate" /\ pc'[o] # "evaluate" /\ config.kill_switch_enabled) =>
                  /\ risk_results'[o] = KillSwitchResult
                  /\ replies'[o].status = "REJECTED"
                  /\ replies'[o].message = KillSwitchMessage
                  /\ orders'[o].status = "REJECTED"
                  /\ orders'[o].rejection_reason = Some(KillSwitchMessage)
                  /\ pc'[o] = "done"]_vars
    /\ [](\A o \in DOMAIN risk_results :
              "KILL_SWITCH_ACTIVE" \in {risk_results[o].violations[i] :
                                          i \in 1..Len(risk_results[o].violations)} =>
                  /\ risk_results[o] = KillSwitchResult
                  /\ orders[o].status = "REJECTED"
                  /\ pc[o] = "done"
                  /\ \A i \in 1..Len(get_by_order(o)) :
                         get_by_order(o)[i].event_type \notin ExecutionEvents)

\* Under the tight limits and the kill switch, an order over the position limit was
\* rejected for the kill switch alone
C10_Witness ==
    \E o \in DOMAIN risk_results :
        /\ risk_results[o] = KillSwitchResult
        /\ Finished(o)
        /\ notional_value(orders[o]) > TightConfig(TRUE).max_position_size
        /\ config = TightConfig(TRUE)

\* The order has an EXECUTION_* event in the store
HasExecutionEvent(o) ==
    \E i \in 1..Len(get_by_order(o)) : get_by_order(o)[i].event_type \in ExecutionEvents

\* C11: every order whose risk check passed has its reply, no order has an
\* EXECUTION_* event before its APPROVED reply exists, and in the step that produces
\* the APPROVED reply the order's status is APPROVED and its events end with
\* RISK_CHECK_PASSED.
C11_ReplyBeforeExecutionEvents ==
    /\ [](/\ \A o \in DOMAIN risk_results :
                (risk_results[o].passed /\ pc[o] # "evaluate") =>
                    o \in DOMAIN replies /\ replies[o].status = "APPROVED"
          /\ \A o \in DOMAIN orders :
                HasExecutionEvent(o) =>
                    o \in DOMAIN replies /\ replies[o].status = "APPROVED")
    /\ [][\A o \in DOMAIN pc :
              (o \notin DOMAIN replies /\ o \in DOMAIN replies'
               /\ replies'[o].status = "APPROVED") =>
                  LET evs == events_by_order'[o]
                  IN  /\ orders'[o].status = "APPROVED"
                      /\ evs[Len(evs)].event_type = "RISK_CHECK_PASSED"
                      /\ \A i \in 1..Len(evs) : evs[i].event_type \notin ExecutionEvents]_vars

\* An approved order has its reply and no execution event yet, while an earlier order
\* has been executed
C11_Witness ==
    \E o1, o2 \in DOMAIN replies :
        /\ replies[o2].status = "APPROVED" /\ orders[o2].status = "APPROVED"
        /\ ~HasExecutionEvent(o2)
        /\ replies[o1].status = "APPROVED" /\ orders[o1].status = "EXECUTED"
        /\ Finished(o1)

\* The orders whose EXECUTION_COMPLETED event is in the store
Completed ==
    {o \in DOMAIN orders :
        \E i \in 1..Len(get_by_order(o)) :
            get_by_order(o)[i].event_type = "EXECUTION_COMPLETED"}

RECURSIVE SumNotional(_)
SumNotional(os) ==
    IF os = {} THEN 0
    ELSE LET o == CHOOSE x \in os : TRUE
         IN  notional_value(orders[o]) + SumNotional(os \ {o})

\* C12: with no date change, daily_volume holds the notional of every order whose
\* EXECUTION_COMPLETED is in the log and of no order that is not EXECUTED, each once;
\* the symbol of a completed order has a position; and the step that appends
\* EXECUTION_COMPLETED changes neither positions nor daily_volume, which hold the fill
\* before it.
C12_PositionUpdatedBeforeCompleted ==
    /\ [](/\ SumNotional(Completed) <= daily_volume
          /\ daily_volume <= SumNotional(Fills)
          /\ \A o \in Completed : orders[o].symbol \in DOMAIN positions)
    /\ [][\A o \in DOMAIN orders :
              (Len(events') > Len(events)
               /\ events'[Len(events')].event_type = "EXECUTION_COMPLETED"
               /\ events'[Len(events')].order_id = o) =>
                  /\ UNCHANGED <<positions, daily_volume>>
                  /\ orders[o].symbol \in DOMAIN positions
                  /\ daily_volume >= SumNotional(Completed \cup {o})]_vars

\* Two orders of different notional are completed and the volume is their sum
C12_Witness ==
    /\ Cardinality(Completed) = 2
    /\ \E o1, o2 \in Completed : notional_value(orders[o1]) < notional_value(orders[o2])
    /\ daily_volume = SumNotional(Completed)

\* C13: an order is EXECUTED exactly if executed_quantity = quantity and
\* executed_price is set; an order of any other status has executed_quantity 0 and no
\* executed_price.
C13_ExecutedIffFilled ==
    \A o \in DOMAIN orders :
        /\ orders[o].status = "EXECUTED" <=>
               (orders[o].executed_quantity = orders[o].quantity
                /\ orders[o].executed_price # None)
        /\ orders[o].status # "EXECUTED" =>
               (orders[o].executed_quantity = 0 /\ orders[o].executed_price = None)

\* An order executed after two failed attempts beside an order that failed all three
C13_Witness ==
    \E o1, o2 \in DOMAIN orders :
        /\ orders[o1].status = "EXECUTED" /\ orders[o1].retry_count = 2
        /\ orders[o1].executed_price = Some(ExecutedPrice(orders[o1].price, 1))
        /\ orders[o2].status = "FAILED" /\ orders[o2].retry_count = MAX_RETRY_ATTEMPTS

\* C14: once check_order has returned a failed result for an order and submit_order
\* has acted on it, the order is in the table with status REJECTED and the result's
\* message as rejection_reason, the reply says the same, its coroutine has ended with
\* no execution started, and the order has no EXECUTION_* event.
C14_RejectedNeverExecutes ==
    \A o \in DOMAIN risk_results :
        ~risk_results[o].passed =>
            /\ o \in DOMAIN orders
            /\ orders[o].status = "REJECTED"
            /\ orders[o].rejection_reason = Some(risk_results[o].message)
            /\ replies[o].status = "REJECTED"
            /\ replies[o].message = risk_results[o].message
            /\ pc[o] = "done"
            /\ o \notin DOMAIN attempt
            /\ ~HasExecutionEvent(o)

\* An order was rejected for the position limit, and a later order was executed
C14_Witness ==
    \E o1, o2 \in DOMAIN orders :
        /\ o1 < o2
        /\ o1 \in DOMAIN risk_results
        /\ risk_results[o1].violations # <<>>
        /\ risk_results[o1].violations[1] = "POSITION_LIMIT"
        /\ orders[o1].status = "REJECTED"
        /\ orders[o2].status = "EXECUTED" /\ Finished(o2)

\* The step in which update_position runs for o, and the one in which check_order
\* takes the lock for o
SettlesFill(o) == pc[o] = "settle" /\ pc'[o] # "settle"
ChecksOrder(o) == pc[o] = "risk_check" /\ pc'[o] # "risk_check"

\* C15: daily_volume decreases only when the date is past that of the last reset; and
\* a Risk Engine operation that runs on a later date than the last reset resets the
\* volume: after check_order's reset the volume is 0, after update_position it is the
\* fill's notional alone, and daily_volume_reset is the current time.
C15_DailyVolumeResetByFirstOperation ==
    [][/\ daily_volume' < daily_volume => DayChanged
       /\ \A o \in DOMAIN pc :
              (ChecksOrder(o) /\ DayChanged) =>
                  daily_volume' = 0 /\ daily_volume_reset' = now
       /\ \A o \in DOMAIN pc :
              (SettlesFill(o) /\ DayChanged) =>
                  /\ daily_volume' = notional_value(orders[o])
                  /\ daily_volume_reset' = now]_vars

\* C16: the metrics snapshot of every reachable state has gross_exposure >=
\* |net_exposure|, gross_exposure >= 0 and largest_position <= gross_exposure, with
\* largest_position 0 when there is no position.
C16_GrossBoundsNetAndLargest ==
    LET m == RiskMetrics(daily_volume)
    IN  /\ FracLeq(FracAbs(m.net_exposure), m.gross_exposure)
        /\ FracLeq(Frac(0, 1), m.gross_exposure)
        /\ FracLeq(m.largest_position, m.gross_exposure)
        /\ (DOMAIN positions = {} => m.largest_position = Frac(0, 1))

\* A short and a long position: the gross exposure is above |net| and above the
\* largest position
C16_Witness ==
    LET m == RiskMetrics(daily_volume)
    IN  /\ m.total_positions = 2
        /\ \E s \in DOMAIN positions : positions[s].quantity < 0
        /\ ~FracLeq(m.gross_exposure, FracAbs(m.net_exposure))
        /\ ~FracLeq(m.gross_exposure, m.largest_position)

\* C17: for every order, get_by_correlation of its correlation id and get_by_order of
\* its order id return the same list of events.
C17_CorrelationTrailEqualsOrderTrail ==
    \A o \in DOMAIN orders :
        get_by_correlation(orders[o].correlation_id) = get_by_order(o)

\* A rejected order with its three events and a completed order with its five
C17_Witness ==
    \E o1, o2 \in DOMAIN orders :
        /\ TypesOf(get_by_correlation(orders[o1].correlation_id)) = RejectedPath
        /\ TypesOf(get_by_correlation(orders[o2].correlation_id)) = CompletedPath

\* C18: every stored event has the order_id of an order of the table and that order's
\* correlation_id, events of one order_id have one correlation_id, and two orders
\* never have the same correlation_id.
C18_EventsCarryOrderIds ==
    /\ \A i \in 1..Len(events) :
           /\ events[i].order_id \in DOMAIN orders
           /\ orders[events[i].order_id].order_id = events[i].order_id
           /\ events[i].correlation_id = orders[events[i].order_id].correlation_id
    /\ \A i, j \in 1..Len(events) :
           events[i].order_id = events[j].order_id =>
               events[i].correlation_id = events[j].correlation_id
    /\ \A o1, o2 \in DOMAIN orders :
           o1 # o2 => orders[o1].correlation_id # orders[o2].correlation_id

\* Two orders with events of the first on both sides of an event of the second
C18_Witness ==
    \E i, j, k \in 1..Len(events) :
        /\ i < j /\ j < k
        /\ events[i].order_id = events[k].order_id
        /\ events[i].order_id # events[j].order_id
        /\ events[j].event_type = "EXECUTION_STARTED"

\* C19: each list of the correlation index is the subsequence of the master log with
\* that correlation_id, each list of the order index the subsequence with that
\* order_id, and every id of the log has its list: no event of the log is missing
\* from an index.
C19_IndicesAreSubsequences ==
    /\ DOMAIN events_by_correlation =
           {events[i].correlation_id : i \in 1..Len(events)}
    /\ DOMAIN events_by_order = {events[i].order_id : i \in 1..Len(events)}
    /\ \A c \in DOMAIN events_by_correlation :
           events_by_correlation[c] = SelectSeq(events, LAMBDA e : e.correlation_id = c)
    /\ \A o \in DOMAIN events_by_order :
           events_by_order[o] = SelectSeq(events, LAMBDA e : e.order_id = o)

\* The log holds the events of two orders, neither list being a block of the log
C19_Witness ==
    /\ Cardinality(DOMAIN events_by_order) = 2
    /\ events[1].order_id # events[Len(events)].order_id
    /\ \E i \in 2..Len(events) : events[i].order_id = events[1].order_id
                                  /\ events[i - 1].order_id # events[1].order_id

\* C20: in every step the master log before is a prefix of the master log after, and
\* so is every list of both indices: no stored event is removed, moved or replaced.
C20_LogIsAppendOnly ==
    [][/\ IsPrefix(events, events')
       /\ \A c \in DOMAIN events_by_correlation :
              /\ c \in DOMAIN events_by_correlation'
              /\ IsPrefix(events_by_correlation[c], events_by_correlation'[c])
       /\ \A o \in DOMAIN events_by_order :
              /\ o \in DOMAIN events_by_order'
              /\ IsPrefix(events_by_order[o], events_by_order'[o])]_vars

\* The log holds the ten events of two orders that ran to their end
C20_Witness ==
    /\ Len(events) = 10
    /\ \A o \in DOMAIN orders : Finished(o) /\ Len(get_by_order(o)) = 5

\* A step that leaves an answer other than the one it found
NewExchange ==
    /\ exchange' # None
    /\ \/ exchange = None
       \/ exchange'[1].endpoint # exchange[1].endpoint
       \/ exchange'[1].role # exchange[1].role
       \/ exchange'[1].status_code # exchange[1].status_code
       \/ exchange'[1].request # exchange[1].request
       \/ exchange'[1].body # exchange[1].body

\* A step in which the endpoint answers 200
Answered(endpoint) ==
    /\ NewExchange
    /\ exchange'[1].endpoint = endpoint
    /\ exchange'[1].status_code = 200

\* A step in which an endpoint answers 403
Refused ==
    /\ NewExchange
    /\ exchange'[1].status_code = 403

\* C21: GET /audit/events with limit >= 0 answers with the last min(limit, n) events
\* of the master log of n events, in append order, and never with more than limit
\* events (none for limit = 0).
C21_RecentEvents ==
    [][Answered("GET /audit/events") =>
           LET limit == exchange'[1].request
               n == Len(events)
               k == IF limit < n THEN limit ELSE n
           IN  /\ exchange'[1].body.events = SubSeq(events, n - k + 1, n)
               /\ Len(exchange'[1].body.events) <= limit]_vars

\* The levels of the roles: TRADER(1) < RISK_MANAGER(2) < COMPLIANCE(3) < ADMIN(4)
C22_Level(role) ==
    CASE role = "TRADER" -> 1
      [] role = "RISK_MANAGER" -> 2
      [] role = "COMPLIANCE" -> 3
      [] role = "ADMIN" -> 4

\* C22: check_permission is true exactly when the level of the user's role is at
\* least the level of the required role, for all 16 pairs; an endpoint answers 403
\* exactly to the roles below its required role, a refusal changes nothing but the
\* answer, and the configuration changes only for a role of level 2 or more.
C22_PermissionByLevel ==
    /\ [](\A u, r \in UserRole :
              check_permission(u, r) <=> C22_Level(u) >= C22_Level(r))
    /\ [][/\ NewExchange =>
                 (exchange'[1].status_code = 403 <=>
                      C22_Level(exchange'[1].role) <
                          C22_Level(RequiredRole[exchange'[1].endpoint]))
          /\ Refused => UNCHANGED <<storeVars, riskVars, engineVars, taskVars,
                                    conflicts, lock_log, running, now>>
          /\ config' # config =>
                 /\ exchange' # None
                 /\ exchange'[1].status_code = 200
                 /\ C22_Level(exchange'[1].role) >= C22_Level("RISK_MANAGER")
          /\ \A o \in DOMAIN pc' \ DOMAIN pc : ~NewExchange]_vars

\* A TRADER token was refused the activation of the kill switch by PUT /risk/limits
\* while an order was in flight, and the kill switch is off
C22_Witness ==
    /\ exchange # None
    /\ exchange[1].role = "TRADER"
    /\ exchange[1].endpoint = "PUT /risk/limits"
    /\ exchange[1].status_code = 403
    /\ exchange[1].request.kill_switch_enabled
    /\ ~config.kill_switch_enabled
    /\ Len(events) > 0

\* C23: GET /risk/limits answered after an accepted PUT /risk/limits, no endpoint
\* having changed the configuration in between, returns the five fields that were
\* submitted; the configuration is what the last accepted PUT submitted for as long
\* as that PUT is the last exchange.
C23_LimitsReadBack ==
    /\ []((exchange # None /\ exchange[1].endpoint = "PUT /risk/limits"
           /\ exchange[1].status_code = 200) => config = exchange[1].request)
    /\ [][/\ (/\ exchange # None
              /\ exchange[1].endpoint = "PUT /risk/limits"
              /\ exchange[1].status_code = 200
              /\ Answered("GET /risk/limits")) =>
                 \A f \in {"max_position_size", "max_daily_volume", "max_net_exposure",
                           "max_gross_exposure", "kill_switch_enabled"} :
                     exchange'[1].body[f] = exchange[1].request[f]
          /\ Answered("GET /risk/limits") =>
                 exchange'[1].body = config /\ config' = config
          /\ Answered("PUT /risk/limits") =>
                 config' = exchange'[1].request /\ exchange'[1].body = config']_vars

\* GET /risk/limits returned the tight limits with the kill switch on, which a PUT
\* stored while an order was being processed
C23_Witness ==
    /\ exchange # None
    /\ exchange[1].endpoint = "GET /risk/limits"
    /\ exchange[1].status_code = 200
    /\ exchange[1].body = TightConfig(TRUE)
    /\ config = TightConfig(TRUE)
    /\ \E o \in DOMAIN orders : orders[o].status = "REJECTED"

\* The order of the locks: Execution Engine, Risk Engine, Event Store
LockRank(lock) ==
    CASE lock = "engine" -> 1
      [] lock = "risk" -> 2
      [] lock = "store" -> 3

\* C24: every lock is acquired while holding only locks that come before it in the
\* order Execution Engine, Risk Engine, Event Store; the Risk Engine lock is held
\* only by the running task, between the start and the end of its check, and a task
\* or a read that comes to acquire it finds it free: no task waits for a lock.
C24_LockOrder ==
    /\ \A e \in lock_log :
           e.op = "acquire" => \A h \in e.held : LockRank(h) < LockRank(e.what)
    /\ risk_lock # None =>
           /\ running = risk_lock
           /\ pc[risk_lock[1]] = "evaluate"
    /\ \A o \in DOMAIN pc :
           (running = Some(o) /\ pc[o] \in {"risk_check", "settle"}) => risk_lock = None

\* A check appended its event under the Risk Engine lock and holds it, while the
\* execution of another order is between two attempts
C24_Witness ==
    /\ Acquire({"risk"}, "store") \in lock_log
    /\ Acquire({}, "engine") \in lock_log
    /\ risk_lock # None
    /\ \E o \in DOMAIN pc : Some(o) # risk_lock /\ pc[o] = "attempt"

\* C25: every write to the positions, to the daily volume or to the limits
\* configuration is made holding the Risk Engine lock, every write to the order
\* table holding the Execution Engine lock, every write to the event log and its
\* indices holding the Event Store lock.
C25_WritesUnderLocks ==
    \A e \in lock_log :
        e.op = "write" =>
            /\ e.what \in {"positions", "daily_volume", "config"} => "risk" \in e.held
            /\ e.what = "orders" => "engine" \in e.held
            /\ e.what = "events" => "store" \in e.held

\* The number of statuses an order has entered, by the transitions of the state
\* machine: PENDING, RISK_CHECK, then REJECTED or APPROVED, EXECUTING, then EXECUTED
\* or FAILED; an order failed by the open breaker went from APPROVED to FAILED.
StatusesEntered(o) ==
    CASE orders[o].status = "PENDING" -> 1
      [] orders[o].status = "RISK_CHECK" -> 2
      [] orders[o].status \in {"APPROVED", "REJECTED"} -> 3
      [] orders[o].status = "EXECUTING" -> 4
      [] orders[o].status = "EXECUTED" -> 5
      [] orders[o].status = "FAILED" -> IF o \in Blocked THEN 4 ELSE 5

\* The event of the change to a terminal status
TerminalEvent(status) ==
    CASE status = "REJECTED" -> "RISK_CHECK_FAILED"
      [] status = "EXECUTED" -> "EXECUTION_COMPLETED"
      [] status = "FAILED" -> "EXECUTION_FAILED"

\* The order's task is not in the middle of a run: it waits at a sleep, waits to be
\* started, or has ended
Quiescent(o) == o \in DOMAIN orders /\ running # Some(o)

\* C26: whenever the processing of an order is quiescent, the number of events
\* recorded for it equals the number of statuses it has entered, and an order in a
\* terminal status has the event of that change as its last event.
C26_StatusChangesPaired ==
    \A o \in DOMAIN orders :
        Quiescent(o) =>
            /\ Len(get_by_order(o)) = StatusesEntered(o)
            /\ orders[o].status \in TerminalStatus =>
                   /\ get_by_order(o) # <<>>
                   /\ get_by_order(o)[Len(get_by_order(o))].event_type =
                          TerminalEvent(orders[o].status)

\* The four limits in the order of their tests
LimitOrder ==
    <<"POSITION_LIMIT", "DAILY_VOLUME_LIMIT", "NET_EXPOSURE_LIMIT", "GROSS_EXPOSURE_LIMIT">>

\* The condition of each limit for `order`, on the state the check finds
LimitExceeded(order, limit) ==
    LET notional == order.quantity * order.price
        projected == calculate_projected_positions(order)
        net == calculate_net_exposure(projected)
        gross == calculate_gross_exposure(projected)
    IN  CASE limit = "POSITION_LIMIT" -> notional > config.max_position_size
          [] limit = "DAILY_VOLUME_LIMIT" ->
                 daily_volume + notional > config.max_daily_volume
          [] limit = "NET_EXPOSURE_LIMIT" ->
                 Abs(net.n) > config.max_net_exposure * net.d
          [] limit = "GROSS_EXPOSURE_LIMIT" ->
                 gross.n > config.max_gross_exposure * gross.d

\* A step in which check_order returns its result for order o
ChecksResult(o) == o \in DOMAIN risk_results' /\ o \notin DOMAIN risk_results

\* C27: with the kill switch off, the violations of a check are exactly the limits
\* whose condition holds, each once, in the order POSITION_LIMIT, DAILY_VOLUME_LIMIT,
\* NET_EXPOSURE_LIMIT, GROSS_EXPOSURE_LIMIT, every condition being a strict
\* comparison, and passed is true exactly when there is none.
C27_AllLimitsEvaluated ==
    [][\A o \in DOMAIN pc :
           (ChecksResult(o) /\ ~config.kill_switch_enabled) =>
               LET order == orders[o]
                   result == risk_results'[o]
               IN  /\ result.violations =
                          SelectSeq(LimitOrder, LAMBDA limit : LimitExceeded(order, limit))
                   /\ result.passed <=>
                          \A i \in 1..Len(LimitOrder) : ~LimitExceeded(order, LimitOrder[i])
                   /\ result.passed <=> result.violations = <<>>]_vars

\* Under the tight limits one order passed with its notional equal to
\* max_position_size, and the check of another returned two violations
C27_Witness ==
    /\ ~config.kill_switch_enabled
    /\ \E o1, o2 \in DOMAIN risk_results :
           /\ risk_results[o1].passed
           /\ orders[o1].quantity * orders[o1].price = config.max_position_size
           /\ Len(risk_results[o2].violations) >= 2
           /\ risk_results[o2].violations[1] # "KILL_SWITCH_ACTIVE"

\* The EXECUTION_* events of order o of one type
ExecutionEventsOf(o, event_type) ==
    SelectSeq(get_by_order(o), LAMBDA e : e.event_type = event_type)

\* C28: an execution makes at most MAX_RETRY_ATTEMPTS attempts; retry_count is the
\* number of failed attempts, at most 3, and grows by one at a failed attempt only;
\* an order is FAILED by the retry loop exactly when three attempts failed, with one
\* EXECUTION_FAILED carrying retry_attempts = 3; an order that succeeds at attempt k
\* gets one EXECUTION_COMPLETED with retry_attempt = k = retry_count, and nothing is
\* attempted after a success or after the final failure.
C28_RetryLoop ==
    /\ [](\A o \in DOMAIN orders :
              /\ orders[o].retry_count <= MAX_RETRY_ATTEMPTS
              /\ orders[o].retry_count = MAX_RETRY_ATTEMPTS <=>
                     (orders[o].status = "FAILED" /\ o \notin Blocked)
              /\ o \in DOMAIN attempt =>
                     /\ attempt[o] < MAX_RETRY_ATTEMPTS
                     /\ orders[o].status \in {"EXECUTING", "EXECUTED"} =>
                            orders[o].retry_count = attempt[o]
              /\ Len(ExecutionEventsOf(o, "EXECUTION_FAILED")) <= 1
              /\ Len(ExecutionEventsOf(o, "EXECUTION_COMPLETED")) <= 1
              /\ \A i \in 1..Len(ExecutionEventsOf(o, "EXECUTION_FAILED")) :
                     /\ ExecutionEventsOf(o, "EXECUTION_FAILED")[i].payload.retry_attempts
                            = MAX_RETRY_ATTEMPTS
                     /\ orders[o].retry_count = MAX_RETRY_ATTEMPTS
              /\ \A i \in 1..Len(ExecutionEventsOf(o, "EXECUTION_COMPLETED")) :
                     /\ ExecutionEventsOf(o, "EXECUTION_COMPLETED")[i].payload.retry_attempt
                            = orders[o].retry_count
                     /\ orders[o].status = "EXECUTED"
              /\ Finished(o) =>
                     /\ (orders[o].status = "FAILED" /\ o \notin Blocked) <=>
                            Len(ExecutionEventsOf(o, "EXECUTION_FAILED")) = 1
                     /\ orders[o].status = "EXECUTED" <=>
                            Len(ExecutionEventsOf(o, "EXECUTION_COMPLETED")) = 1)
    /\ [][\A o \in DOMAIN orders :
              /\ orders'[o].retry_count \in
                     {orders[o].retry_count, orders[o].retry_count + 1}
              /\ orders'[o].retry_count # orders[o].retry_count =>
                     /\ pc[o] = "attempt"
                     /\ orders[o].status = "EXECUTING"
                     /\ orders'[o].status = "FAILED" <=>
                            orders'[o].retry_count = MAX_RETRY_ATTEMPTS
              /\ orders[o].status \in {"EXECUTED", "FAILED"} =>
                     /\ orders'[o].status = orders[o].status
                     /\ orders'[o].retry_count = orders[o].retry_count]_vars

\* One order succeeded at its third attempt and has its EXECUTION_COMPLETED, another
\* failed three times and has its EXECUTION_FAILED
C28_Witness ==
    \E o1, o2 \in DOMAIN orders :
        /\ Finished(o1) /\ orders[o1].status = "EXECUTED"
        /\ orders[o1].retry_count = MAX_RETRY_ATTEMPTS - 1
        /\ Len(ExecutionEventsOf(o1, "EXECUTION_COMPLETED")) = 1
        /\ Finished(o2) /\ orders[o2].status = "FAILED"
        /\ Len(ExecutionEventsOf(o2, "EXECUTION_FAILED")) = 1

\* A step in which the last attempt of order o fails
FinalFailure(o) ==
    /\ pc[o] = "attempt"
    /\ orders[o].status = "EXECUTING"
    /\ orders'[o].status = "FAILED"

\* A step in which an attempt of order o fails and another is to follow
FailedAttempt(o) ==
    /\ pc[o] = "attempt"
    /\ orders'[o].retry_count = orders[o].retry_count + 1
    /\ orders'[o].status = "EXECUTING"

\* C29: the failure count of the circuit breaker grows by one in exactly the steps
\* in which the last attempt of an order fails, and otherwise stays or is reset to
\* 0; failed attempts that are not the last and executions blocked by the open
\* breaker leave it; the step that brings it to CIRCUIT_BREAKER_THRESHOLD or above
\* sets open_until to now + CIRCUIT_BREAKER_TIMEOUT; and in every state open_until
\* is set exactly when the count is at least the threshold.
C29_BreakerCountsFinalFailures ==
    /\ [](circuit_breaker_open_until # None <=>
              circuit_breaker_failures >= CIRCUIT_BREAKER_THRESHOLD)
    /\ [][/\ circuit_breaker_failures' \in
                 {circuit_breaker_failures, circuit_breaker_failures + 1, 0}
          /\ circuit_breaker_failures' = circuit_breaker_failures + 1 <=>
                 \E o \in DOMAIN orders : FinalFailure(o)
          /\ circuit_breaker_failures' = circuit_breaker_failures + 1 =>
                 circuit_breaker_open_until' =
                     IF circuit_breaker_failures' >= CIRCUIT_BREAKER_THRESHOLD
                     THEN Some(now + CIRCUIT_BREAKER_TIMEOUT)
                     ELSE None
          /\ \A o \in DOMAIN orders :
                 (FailedAttempt(o) \/ (Starts(o) /\ BreakerOpen)) =>
                     UNCHANGED <<circuit_breaker_failures, circuit_breaker_open_until>>
         ]_vars

\* The fifth final failure has opened the breaker for CIRCUIT_BREAKER_TIMEOUT seconds
\* from now, at a time after the start of the clock
C29_Witness ==
    /\ circuit_breaker_failures = CIRCUIT_BREAKER_THRESHOLD
    /\ circuit_breaker_open_until = Some(now + CIRCUIT_BREAKER_TIMEOUT)
    /\ now > 0

\* The types of the EXECUTION_COMPLETED and EXECUTION_FAILED events of the log, in
\* append order
ExecutionOutcomes ==
    TypesOf(SelectSeq(events, LAMBDA e :
                e.event_type \in {"EXECUTION_COMPLETED", "EXECUTION_FAILED"}))

\* C30: a step in which an order becomes EXECUTED restarts the failure count of the
\* circuit breaker, and the step that opens the breaker is the final failure of the
\* last of CIRCUIT_BREAKER_THRESHOLD executions in a row that failed: the
\* THRESHOLD - 1 most recent execution outcomes of the log are all EXECUTION_FAILED.
C30_ConsecutiveFailures ==
    [][/\ \A o \in DOMAIN orders :
              (orders[o].status = "EXECUTING" /\ orders'[o].status = "EXECUTED") =>
                  circuit_breaker_failures' = 0
       /\ (circuit_breaker_open_until = None /\ circuit_breaker_open_until' # None) =>
              /\ Len(ExecutionOutcomes) >= CIRCUIT_BREAKER_THRESHOLD - 1
              /\ \A i \in 1..Len(ExecutionOutcomes) :
                     i > Len(ExecutionOutcomes) - (CIRCUIT_BREAKER_THRESHOLD - 1) =>
                         ExecutionOutcomes[i] = "EXECUTION_FAILED"]_vars

\* C31: update_position for an executed order on symbol s, with signed delta D and
\* prior position (q, a), (0, 0) when s has none, leaves s with quantity 0 and
\* average_price 0 if q + D = 0, and otherwise with quantity q + D and average_price
\* (q*a + D*executed_price) / (q + D); it adds quantity * price of the order to
\* daily_volume and leaves the position of every other symbol as it was.
C31_PositionAfterFill ==
    [][\A o \in DOMAIN pc :
           SettlesFill(o) =>
               LET order == orders[o]
                   s == order.symbol
                   D == IF order.side = "BUY" THEN order.executed_quantity
                        ELSE 0 - order.executed_quantity
                   q == IF s \in DOMAIN positions THEN positions[s].quantity ELSE 0
                   a == IF s \in DOMAIN positions THEN positions[s].average_price
                        ELSE [n |-> 0, d |-> 1]
               IN  /\ DOMAIN positions' = DOMAIN positions \cup {s}
                   /\ q + D = 0 =>
                          /\ positions'[s].quantity = 0
                          /\ positions'[s].average_price.n = 0
                   /\ q + D # 0 =>
                          /\ positions'[s].quantity = q + D
                          /\ positions'[s].average_price.n * a.d * (q + D) =
                                 (q * a.n + D * order.executed_price[1] * a.d)
                                     * positions'[s].average_price.d
                   /\ daily_volume' = daily_volume + order.quantity * order.price
                   /\ \A t \in DOMAIN positions \ {s} : positions'[t] = positions[t]]_vars

\* A sale settled on a long position of the same size and left it flat, after the
\* purchase that opened it
C31_Witness ==
    /\ Cardinality(Completed) = 2
    /\ \E s \in DOMAIN positions :
           /\ positions[s].quantity = 0
           /\ positions[s].average_price = Frac(0, 1)
    /\ \E o \in Completed : orders[o].side = "SELL"
    /\ daily_volume = SumNotional(Completed)

\* C32: from the moment check_order has taken the lock until it returns, the
\* configuration does not change, and the result it returns is decided by that one
\* configuration: the kill-switch result if its flag is set, and otherwise the
\* violations of its four limits.
C32_OneConfigurationPerCheck ==
    [][\A o \in DOMAIN pc :
           /\ pc[o] = "evaluate" => config' = config
           /\ ChecksResult(o) =>
                  /\ pc[o] = "evaluate"
                  /\ config.kill_switch_enabled => risk_results'[o] = KillSwitchResult
                  /\ ~config.kill_switch_enabled =>
                         risk_results'[o].violations =
                             SelectSeq(LimitOrder,
                                       LAMBDA limit : LimitExceeded(orders[o], limit))]_vars

\* A check holds the lock under the tight limits with the kill switch on, while
\* another order is in flight that passed its check under another configuration
C32_Witness ==
    /\ config = TightConfig(TRUE)
    /\ \E o1, o2 \in DOMAIN pc :
           /\ pc[o1] = "evaluate"
           /\ o2 \in DOMAIN risk_results
           /\ risk_results[o2].passed
           /\ pc[o2] # "done"

\* The result event that a check has appended in this step for order o
ResultEventOf(o) == events'[Len(events')]

\* x = y for two fractions
FracEq(x, y) == x.n * y.d = y.n * x.d

\* C33: the exposures that a check with the kill switch off computes and records are,
\* for an order on a symbol without a position, the current net and gross exposures,
\* and NET_EXPOSURE_LIMIT and GROSS_EXPOSURE_LIMIT are then given exactly when the
\* current exposures exceed their limits; for a symbol with a position they are the
\* exposures of the positions with that symbol's quantity changed by +quantity (BUY)
\* or -quantity (SELL) at its current average_price, every other symbol as it is.
C33_ProjectedExposure ==
    [][\A o \in DOMAIN pc :
           (ChecksResult(o) /\ ~config.kill_switch_enabled) =>
               LET order == orders[o]
                   s == order.symbol
                   delta == IF order.side = "BUY" THEN order.quantity
                            ELSE 0 - order.quantity
                   net == ResultEventOf(o).payload.net_exposure
                   gross == ResultEventOf(o).payload.gross_exposure
                   violations == risk_results'[o].violations
                   given(limit) == \E i \in 1..Len(violations) : violations[i] = limit
                   others == [t \in DOMAIN positions \ {s} |-> positions[t]]
               IN  /\ ResultEventOf(o).order_id = o
                   /\ s \notin DOMAIN positions =>
                          /\ FracEq(net, calculate_net_exposure(positions))
                          /\ FracEq(gross, calculate_gross_exposure(positions))
                          /\ given("NET_EXPOSURE_LIMIT") <=>
                                 FracGreater(FracAbs(calculate_net_exposure(positions)),
                                             config.max_net_exposure)
                          /\ given("GROSS_EXPOSURE_LIMIT") <=>
                                 FracGreater(calculate_gross_exposure(positions),
                                             config.max_gross_exposure)
                   /\ s \in DOMAIN positions =>
                          LET a == positions[s].average_price
                              value == Frac((positions[s].quantity + delta) * a.n, a.d)
                          IN  /\ FracEq(net, FracAdd(calculate_net_exposure(others), value))
                              /\ FracEq(gross, FracAdd(calculate_gross_exposure(others),
                                                       FracAbs(value)))]_vars

\* With a position on one symbol, an order on a symbol without a position passed its
\* check, which recorded the exposure of the existing position alone
C33_Witness ==
    \E o \in DOMAIN risk_results :
        /\ risk_results[o].passed
        /\ orders[o].symbol \notin DOMAIN positions
        /\ DOMAIN positions # {}
        /\ \E i \in 1..Len(get_by_order(o)) :
               /\ get_by_order(o)[i].event_type = "RISK_CHECK_PASSED"
               /\ get_by_order(o)[i].payload.net_exposure =
                      calculate_net_exposure(positions)
               /\ get_by_order(o)[i].payload.net_exposure.n # 0

\* C34: every symbol of the positions map has an order that reached EXECUTED, and no
\* step removes a symbol from the map.
C34_PositionsCreatedByFills ==
    /\ [](\A s \in DOMAIN positions :
              \E o \in DOMAIN orders :
                  orders[o].symbol = s /\ orders[o].status = "EXECUTED")
    /\ [][DOMAIN positions \subseteq DOMAIN positions']_vars

\* With the kill switch off, an order on a symbol without a position was checked
\* against the limits and rejected, and its symbol has no position; the symbol of a
\* completed order has one
C34_Witness ==
    /\ DOMAIN positions # {}
    /\ \E o \in DOMAIN risk_results :
           /\ Finished(o)
           /\ orders[o].status = "REJECTED"
           /\ risk_results[o].violations[1] # "KILL_SWITCH_ACTIVE"
           /\ orders[o].symbol \notin DOMAIN positions

\* C35: a reply has status APPROVED exactly if the risk check passed and REJECTED
\* otherwise; once given it never changes, whatever becomes of the execution; an
\* order whose reply is REJECTED never starts an execution, and an approved order
\* starts one execution, once: it has at most one EXECUTION_STARTED, and when it has
\* ended it has exactly one or was failed at its start by the open breaker.
C35_ReplyIsRiskDecision ==
    /\ [](\A o \in DOMAIN replies :
              /\ o \in DOMAIN risk_results
              /\ replies[o].status = (IF risk_results[o].passed THEN "APPROVED"
                                      ELSE "REJECTED")
              /\ replies[o].order_id = o
              /\ Len(ExecutionEventsOf(o, "EXECUTION_STARTED")) <= 1
              /\ replies[o].status = "REJECTED" =>
                     /\ pc[o] = "done"
                     /\ ~HasExecutionEvent(o)
              /\ (replies[o].status = "APPROVED" /\ Finished(o)) =>
                     /\ orders[o].status \in {"EXECUTED", "FAILED"}
                     /\ Len(ExecutionEventsOf(o, "EXECUTION_STARTED")) =
                            (IF o \in Blocked THEN 0 ELSE 1))
    /\ [][\A o \in DOMAIN replies :
              /\ o \in DOMAIN replies'
              /\ replies'[o] = replies[o]
              /\ Starts(o) => replies[o].status = "APPROVED"
              /\ pc'[o] = "scheduled" => pc[o] = "scheduled"]_vars

\* The replies of an order that exhausted its attempts and of an order that the open
\* breaker failed both say APPROVED
C35_Witness ==
    \E o1, o2 \in DOMAIN replies :
        /\ Finished(o1) /\ orders[o1].status = "FAILED" /\ o1 \notin Blocked
        /\ Finished(o2) /\ o2 \in Blocked
        /\ replies[o1].status = "APPROVED"
        /\ replies[o2].status = "APPROVED"

\* C36: a step in which check_order returns its result leaves the positions map and
\* every stored Position as they were.
C36_CheckLeavesPositions ==
    [][\A o \in DOMAIN pc : ChecksResult(o) => positions' = positions]_vars

\* The orders whose fill update_position has settled
Settled ==
    {o \in DOMAIN orders :
        orders[o].status = "EXECUTED" /\ pc[o] \in {"emit_completed", "done"}}

RECURSIVE SumSignedQuantity(_)
SumSignedQuantity(os) ==
    IF os = {} THEN 0
    ELSE LET o == CHOOSE x \in os : TRUE
         IN  (IF orders[o].side = "BUY" THEN orders[o].executed_quantity
              ELSE 0 - orders[o].executed_quantity)
             + SumSignedQuantity(os \ {o})

\* C37: in every state the quantity of the position of each symbol is the sum of the
\* executed quantities of the settled BUY orders on it minus that of the settled SELL
\* orders, and a symbol without a position has no settled order.
C37_QuantityIsSumOfFills ==
    \A s \in {orders[o].symbol : o \in DOMAIN orders} \cup DOMAIN positions :
        LET net == SumSignedQuantity({o \in Settled : orders[o].symbol = s})
        IN  IF s \in DOMAIN positions THEN positions[s].quantity = net
            ELSE {o \in Settled : orders[o].symbol = s} = {}

\* C38: with the limits held fixed since before the first submission and within one
\* day, daily_volume never exceeds max_daily_volume.
C38_VolumeWithinLimit == daily_volume <= config.max_daily_volume

\* C39: under fair scheduling every accepted submission eventually has its order
\* REJECTED, EXECUTED or FAILED with its tasks ended: no order stays PENDING,
\* RISK_CHECK, APPROVED or EXECUTING forever.
C39_EveryOrderTerminates ==
    \A o \in 1..MaxLiveOrders :
        (o \in DOMAIN pc) ~> (Finished(o) /\ orders[o].status \in TerminalStatus)

\* Two orders have ended, one executed after a failed attempt and one that failed
\* three attempts
C39_Witness ==
    /\ \A o \in 1..MaxLiveOrders : Finished(o)
    /\ \E o \in DOMAIN orders : orders[o].status = "EXECUTED" /\ orders[o].retry_count = 1
    /\ \E o \in DOMAIN orders : orders[o].status = "FAILED"

\* C40: while kill_switch_enabled is true, no order becomes EXECUTED and neither the
\* positions nor daily_volume change, orders approved before the switch included.
C40_KillSwitchHaltsTrading ==
    [][(config.kill_switch_enabled /\ config'.kill_switch_enabled) =>
           /\ positions' = positions
           /\ daily_volume' = daily_volume
           /\ \A o \in DOMAIN orders :
                  orders'[o].status = "EXECUTED" => orders[o].status = "EXECUTED"]_vars

====
